---- MODULE Spec2Model ----
(***************************************************************************)
(* SpacePipe Gen: a configuration form (App.tsx), a registry of five file  *)
(* descriptors (FILES) and the five template functions of                  *)
(* utils/templates.ts that turn a PipelineConfig into the text of a file.  *)
(*                                                                         *)
(* A text is the sequence of its lines, each line a string, each line      *)
(* ended by a line feed in the file; two texts are the same bytes exactly  *)
(* when they are the same sequence, since a value typed into an            *)
(* <input type="text"> holds no line feed.  Characters outside ASCII in    *)
(* the templates are written <U+XXXX>, as is the backquote.  The sequences ${{ ... }} and       *)
(* ${BASENAME...} of the templates are text of the generated file (GitHub  *)
(* expressions and shell expansions); the substitution points are the      *)
(* seven ${config.<field>} places.                                         *)
(***************************************************************************)
EXTENDS Integers, Sequences, FiniteSets

(***************************************************************************)
(* Bounds of the model.                                                    *)
(***************************************************************************)
\* How many change events of the form one session of Spec explores.
MaxEdits == 2
\* How many fields of the second record of GenSpec differ from the first.
MaxOverrides == 2

(***************************************************************************)
(* JavaScript values: a string, undefined or null.                         *)
(***************************************************************************)
Str(s) == [type |-> "string", str |-> s]

Undefined == [type |-> "undefined"]

Null == [type |-> "null"]

\* types.ts: the seven fields of PipelineConfig.
PipelineConfigFields ==
  {"repoName", "ownerName", "podcastTitle", "podcastDescription",
   "authorName", "email", "imageUrl"}

\* App.tsx: the object literal DEFAULT_CONFIG is bound to.
DefaultConfigLiteral ==
  [repoName |-> Str("copy-spaces-to-youtube-pipeline"),
   ownerName |-> Str("aiandbotsgalore"),
   podcastTitle |-> Str("My Spaces Archive"),
   podcastDescription |-> Str("An automated archive of Twitter Spaces."),
   authorName |-> Str("Logan Black"),
   email |-> Str("loganblack0@gmail.com"),
   imageUrl |-> Str("https://picsum.photos/1400/1400")]

\* config.<field>: reading a property an object lacks gives undefined.
GetField(cfg, field) ==
  IF field \in DOMAIN cfg THEN cfg[field] ELSE Undefined

\* A tolerant conversion: what is not a string becomes the empty string.
ToString_empty(v) ==
  IF v.type = "string" THEN v.str ELSE ""

\* ${v} in a template literal: ToString(v).
ToString(v) ==
  CASE v.type = "string" -> v.str
    [] v.type = "undefined" -> "undefined"
    [] v.type = "null" -> "null"

\* ${config.<field>}.
Subst(cfg, field) == ToString(GetField(cfg, field))

(***************************************************************************)
(* State.                                                                  *)
(*   FILES            the registry array of App.tsx                        *)
(*   DEFAULT_CONFIG   the module-level object of App.tsx                   *)
(*   config           App's state: the current configuration record        *)
(*   configIsDefault  config === DEFAULT_CONFIG (the same object)          *)
(*   activeFile, activeTab   App's state                                   *)
(*   content          FileViewer's rendered text (NoText when unmounted)   *)
(*   copied           FileViewer's state                                   *)
(*   clipboard        what navigator.clipboard.writeText last received     *)
(*   edits            change events handled so far                         *)
(*   cfgA, cfgB       the records two direct calls of a generator receive  *)
(*   callee, calls    the generator called (an index of FILES), and how    *)
(*                    many of the two calls were made                      *)
(*   outA, outB       what the two calls returned                          *)
(***************************************************************************)
VARIABLES FILES, DEFAULT_CONFIG, config, configIsDefault, activeFile,
          activeTab, content, copied, clipboard, edits,
          cfgA, cfgB, callee, calls, outA, outB,
          sh, wf, runs

uiVars == <<FILES, DEFAULT_CONFIG, config, configIsDefault, activeFile,
            activeTab, content, copied, clipboard, edits>>

genVars == <<cfgA, cfgB, callee, calls, outA, outB>>

\* sh: a process running an ingest script; wf: a run of the generated
\* workflow; runs: the runs of the workflow the platform knows of.
pipeVars == <<sh, wf, runs>>

vars == <<FILES, DEFAULT_CONFIG, config, configIsDefault, activeFile,
          activeTab, content, copied, clipboard, edits,
          cfgA, cfgB, callee, calls, outA, outB,
          sh, wf, runs>>

\* No text: FileViewer is not mounted, nothing was copied, nothing returned.
NoText == << >>

(***************************************************************************)
(* utils/templates.ts: the fixed text of the five templates.               *)
(***************************************************************************)
\* templates.ts:3-103, the workflow text before the PODCAST_* assignments.
IngestYamlHead ==
  <<
    "name: Ingest Space",
    "",
    "on:",
    "  push:",
    "    paths:",
    "      - 'space_queue.txt'",
    "  workflow_dispatch:",
    "    inputs:",
    "      space_url:",
    "        description: 'Twitter Space URL (Optional overrides queue file)'",
    "        required: false",
    "        type: string",
    "",
    "# Prevent race conditions during RSS deployment",
    "concurrency:",
    "  group: ${{ github.workflow }}-${{ github.ref }}",
    "  cancel-in-progress: false",
    "",
    "permissions:",
    "  contents: write",
    "  pages: write",
    "  id-token: write",
    "",
    "jobs:",
    "  ingest:",
    "    runs-on: ubuntu-latest",
    "    outputs:",
    "      mp3_path: ${{ steps.process.outputs.mp3_path }}",
    "      release_tag: ${{ steps.process.outputs.release_tag }}",
    "      space_title: ${{ steps.process.outputs.space_title }}",
    "      duration: ${{ steps.duration.outputs.duration }}",
    "    steps:",
    "      - name: Checkout",
    "        uses: actions/checkout@11bd71901bbe5b1630ceea73d27597364c9af683 # v4.2.2",
    "",
    "      - name: Install ffmpeg",
    "        run: |",
    "          sudo apt-get update",
    "          sudo apt-get install -y ffmpeg",
    "",
    "      - name: Set up Python",
    "        uses: actions/setup-python@42375524e23c412d93fb67b49958b491fce71c38 # v5.4.0",
    "        with:",
    "          python-version: '3.10'",
    "          cache: 'pip'",
    "",
    "      - name: Install yt-dlp",
    "        run: python3 -m pip install -r requirements.txt",
    "",
    "      - name: Run Ingest Script",
    "        id: process",
    "        env:",
    "          MANUAL_URL: ${{ inputs.space_url }}",
    "        run: bash ./scripts/ingest.sh",
    "",
    "      - name: Extract MP3 Duration",
    "        id: duration",
    "        if: success()",
    "        run: |",
    "          DURATION=$(ffprobe -v error -show_entries format=duration \\",
    "            -of default=noprint_wrappers=1:nokey=1 \"${{ steps.process.outputs.mp3_path }}\" \\",
    "            | awk '{printf \"%02d:%02d:%02d\", ($1/3600), ($1%3600/60), ($1%60)}')",
    "          echo \"duration=$DURATION\" >> $GITHUB_OUTPUT",
    "      ",
    "      - name: Clear Queue File",
    "        if: success() && inputs.space_url == ''",
    "        run: |",
    "          echo \"\" > space_queue.txt",
    "          git config --global user.name \"github-actions[bot]\"",
    "          git config --global user.email \"github-actions[bot]@users.noreply.github.com\"",
    "          git commit -am \"chore: clear processed space from queue\" || echo \"No changes to commit\"",
    "          git push",
    "",
    "      - name: Create Release",
    "        if: success()",
    "        uses: softprops/action-gh-release@c95fe1489396fe8a9eb87c0abf8aa5b2ef267fda # v2.2.1",
    "        with:",
    "          tag_name: ${{ steps.process.outputs.release_tag }}",
    "          name: \"${{ steps.process.outputs.space_title }}\"",
    "          files: ${{ steps.process.outputs.mp3_path }}",
    "          body: |",
    "            **Space Title:** ${{ steps.process.outputs.space_title }}",
    "            **Duration:** ${{ steps.duration.outputs.duration }}",
    "            **Processed:** ${{ steps.process.outputs.release_tag }}",
    "            ",
    "            ---",
    "            METADATA::DURATION::${{ steps.duration.outputs.duration }}",
    "        env:",
    "          GITHUB_TOKEN: ${{ secrets.GITHUB_TOKEN }}",
    "",
    "  rss:",
    "    needs: ingest",
    "    runs-on: ubuntu-latest",
    "    steps:",
    "      - name: Checkout",
    "        uses: actions/checkout@11bd71901bbe5b1630ceea73d27597364c9af683 # v4.2.2",
    "      ",
    "      - name: Generate RSS Feed",
    "        env:",
    "          GH_TOKEN: ${{ secrets.GITHUB_TOKEN }}",
    "          REPO: ${{ github.repository }}"
  >>

\* templates.ts:109-242, the workflow text after the PODCAST_* assignments.
IngestYamlTail ==
  <<
    "          BASE_URL: \"https://github.com/${{ github.repository }}/releases/download\"",
    "        run: |",
    "          cat <<'EOF' > generate_rss.py",
    "          import os",
    "          import json",
    "          import re",
    "          import urllib.request",
    "          from datetime import datetime",
    "          from xml.sax.saxutils import escape",
    "",
    "          # Configuration",
    "          repo = os.environ['REPO']",
    "          token = os.environ['GH_TOKEN']",
    "          title = os.environ.get('PODCAST_TITLE', 'Twitter Spaces Archive')",
    "          desc = os.environ.get('PODCAST_DESC', 'Archive of Twitter Spaces')",
    "          author = os.environ.get('PODCAST_AUTHOR', 'Logan Black')",
    "          email = os.environ.get('PODCAST_EMAIL', 'loganblack0@gmail.com')",
    "          image_fallback = os.environ.get('PODCAST_IMAGE', 'https://picsum.photos/1400/1400')",
    "          ",
    "          github_pages_url = f\"https://{repo.split('/')[0]}.github.io/{repo.split('/')[1]}/\"",
    "          rss_url = f\"{github_pages_url}podcast.xml\"",
    "",
    "          # Artwork Logic: Use local artwork.jpg if exists, else fallback",
    "          if os.path.exists('artwork.jpg'):",
    "              image = f\"{github_pages_url}artwork.jpg\"",
    "          else:",
    "              image = image_fallback",
    "",
    "          print(f\"Fetching releases for {repo}...\")",
    "",
    "          req = urllib.request.Request(f\"https://api.github.com/repos/{repo}/releases\")",
    "          req.add_header('Authorization', f'token {token}')",
    "          req.add_header('Accept', 'application/vnd.github.v3+json')",
    "",
    "          try:",
    "              with urllib.request.urlopen(req) as response:",
    "                  releases = json.loads(response.read())",
    "          except Exception as e:",
    "              print(f\"Failed to fetch releases: {e}\")",
    "              exit(1)",
    "",
    "          rss_items = []",
    "",
    "          for release in releases:",
    "              if release.get('draft') or release.get('prerelease'):",
    "                  continue",
    "              ",
    "              pub_date_str = release.get('published_at') # ISO 8601",
    "              dt = datetime.strptime(pub_date_str, \"%Y-%m-%dT%H:%M:%SZ\")",
    "              rfc822_date = dt.strftime(\"%a, %d %b %Y %H:%M:%S GMT\")",
    "              ",
    "              # Extract duration from body metadata",
    "              body = release.get('body', '')",
    "              duration_match = re.search(r'METADATA::DURATION::(\\d{2}:\\d{2}:\\d{2})', body)",
    "              duration = duration_match.group(1) if duration_match else \"00:00:00\"",
    "",
    "              for asset in release.get('assets', []):",
    "                  if asset['name'].endswith('.mp3'):",
    "                      file_url = asset['browser_download_url']",
    "                      file_size = asset['size']",
    "                      guid = str(asset['id'])",
    "                      item_title = escape(release.get('name', 'Untitled Space'))",
    "                      ",
    "                      rss_items.append(f\"\"\"",
    "              <item>",
    "                <title>{item_title}</title>",
    "                <description>{item_title} - Twitter Space Replay</description>",
    "                <pubDate>{rfc822_date}</pubDate>",
    "                <enclosure url=\"{file_url}\" length=\"{file_size}\" type=\"audio/mpeg\"/>",
    "                <guid isPermaLink=\"false\">{guid}</guid>",
    "                <itunes:duration>{duration}</itunes:duration>",
    "                <itunes:explicit>no</itunes:explicit>",
    "              </item>\"\"\")",
    "",
    "          # Last Build Date",
    "          last_build_date = datetime.now().strftime(\"%a, %d %b %Y %H:%M:%S GMT\")",
    "",
    "          rss_content = f\"\"\"<?xml version=\"1.0\" encoding=\"UTF-8\"?>",
    "          <rss version=\"2.0\" ",
    "               xmlns:itunes=\"http://www.itunes.com/dtds/podcast-1.0.dtd\" ",
    "               xmlns:googleplay=\"http://www.google.com/schemas/play-podcasts/1.0\"",
    "               xmlns:podcast=\"https://podcastindex.org/namespace/1.0\"",
    "               xmlns:atom=\"http://www.w3.org/2005/Atom\">",
    "            <channel>",
    "              <title>{escape(title)}</title>",
    "              <link>{github_pages_url}</link>",
    "              <description>{escape(desc)}</description>",
    "              <language>en-us</language>",
    "              <lastBuildDate>{last_build_date}</lastBuildDate>",
    "              <atom:link href=\"{rss_url}\" rel=\"self\" type=\"application/rss+xml\" />",
    "              <itunes:author>{escape(author)}</itunes:author>",
    "              <itunes:owner>",
    "                <itunes:name>{escape(author)}</itunes:name>",
    "                <itunes:email>{escape(email)}</itunes:email>",
    "              </itunes:owner>",
    "              <itunes:image href=\"{image}\"/>",
    "              <image>",
    "                <url>{image}</url>",
    "                <title>{escape(title)}</title>",
    "                <link>{github_pages_url}</link>",
    "              </image>",
    "              <itunes:category text=\"Technology\"/>",
    "              <itunes:explicit>no</itunes:explicit>",
    "              {''.join(rss_items)}",
    "            </channel>",
    "          </rss>\"\"\"",
    "",
    "          with open('podcast.xml', 'w') as f:",
    "              f.write(rss_content)",
    "              ",
    "          print(\"Successfully generated podcast.xml\")",
    "          EOF",
    "          python3 generate_rss.py",
    "",
    "      - name: Validate RSS",
    "        run: |",
    "          if ! grep -q '<rss version=\"2.0\"' podcast.xml; then",
    "            echo \"<U+274C> Invalid RSS structure\"",
    "            exit 1",
    "          fi",
    "          echo \"<U+2705> RSS validation passed\"",
    "",
    "      - name: Upload Pages Artifact",
    "        uses: actions/upload-pages-artifact@v3",
    "        with:",
    "          path: .",
    "          # Only include necessary files for deployment",
    "          # This ensures tarball doesn't include source code junk",
    "          # Note: pattern matching doesn't work well here, so we rely on path: .",
    "          # and the fact that we've generated podcast.xml in root.",
    "",
    "      - name: Deploy to GitHub Pages",
    "        id: deployment",
    "        uses: actions/deploy-pages@v4"
  >>

\* templates.ts:246-323, the whole ingest script (no substitution point).
IngestScriptText ==
  <<
    "#!/bin/bash",
    "set -euo pipefail",
    "",
    "# ==============================================================================",
    "# TWITTER SPACE INGEST SCRIPT",
    "# ==============================================================================",
    "",
    "QUEUE_FILE=\"space_queue.txt\"",
    "WORK_DIR=\"work\"",
    "TARGET_URL=\"\"",
    "",
    "# 1. Determine Input Source",
    "# Priority: Environment Variable (Manual Run) > Queue File",
    "if [[ -n \"\tMANUAL_URL:-\" ]]; then",
    "    echo \"Using Manual URL from Workflow Input\"",
    "    TARGET_URL=\"$MANUAL_URL\"",
    "else",
    "    if [[ ! -f \"$QUEUE_FILE\" ]]; then",
    "        echo \"::error::Queue file $QUEUE_FILE not found!\"",
    "        exit 1",
    "    fi",
    "    # Read first non-empty line",
    "    TARGET_URL=$(grep -v '^[[:space:]]*$' \"$QUEUE_FILE\" | head -n 1 | tr -d '[:space:]')",
    "fi",
    "",
    "# 2. Validate URL",
    "if [[ -z \"$TARGET_URL\" ]]; then",
    "    echo \"::error::No URL found in input or queue file!\"",
    "    exit 1",
    "fi",
    "",
    "echo \"Processing URL: $TARGET_URL\"",
    "",
    "# 3. Prepare Work Directory",
    "mkdir -p \"$WORK_DIR\"",
    "",
    "# 4. Download and Convert",
    "echo \"Starting download...\"",
    "",
    "yt-dlp \\",
    "    --retries 3 \\",
    "    --fragment-retries 3 \\",
    "    --no-playlist \\",
    "    --restrict-filenames \\",
    "    --extract-audio \\",
    "    --audio-format mp3 \\",
    "    --audio-quality 0 \\",
    "    --embed-metadata \\",
    "    --embed-thumbnail \\",
    "    --output \"$WORK_DIR/%(upload_date)s_%(id)s_%(title)s.%(ext)s\" \\",
    "    \"$TARGET_URL\"",
    "",
    "# 5. Verify Output",
    "MP3_FILE=$(find \"$WORK_DIR\" -name \"*.mp3\" | head -n 1)",
    "",
    "if [[ -z \"$MP3_FILE\" ]]; then",
    "    echo \"::error::No MP3 file was generated.\"",
    "    exit 1",
    "fi",
    "",
    "echo \"Successfully created: $MP3_FILE\"",
    "",
    "# 6. Extract Metadata for GitHub Actions",
    "BASENAME=$(basename \"$MP3_FILE\" .mp3)",
    "# Format: YYYYMMDD_UNIXTIMESTAMP",
    "RELEASE_TAG=\"\t${BASENAME:0:8}_\t$(date +%s)\"",
    "# Clean title heuristic",
    "SPACE_TITLE=\"\t${BASENAME:20}\" ",
    "if [[ -z \"$SPACE_TITLE\" ]]; then SPACE_TITLE=\"$BASENAME\"; fi",
    "",
    "# 7. Set GitHub Output Variables",
    "if [[ -n \"\tGITHUB_OUTPUT:-\" ]]; then",
    "    echo \"mp3_path=$MP3_FILE\" >> \"$GITHUB_OUTPUT\"",
    "    echo \"release_tag=$RELEASE_TAG\" >> \"$GITHUB_OUTPUT\"",
    "    echo \"space_title=$SPACE_TITLE\" >> \"$GITHUB_OUTPUT\"",
    "fi",
    "",
    "echo \"Done.\""
  >>

\* templates.ts:327-345, the README between the heading and the feed URL.
ReadmeBody ==
  <<
    "",
    "Automated ingestion pipeline for Twitter Spaces.",
    "",
    "## How to Use",
    "",
    "### Option A: Quick Run (Recommended)",
    "1. Go to the **Actions** tab in your repository.",
    "2. Select **Ingest Space**.",
    "3. Click **Run workflow**.",
    "4. Paste the Twitter Space URL in the input box.",
    "",
    "### Option B: Queue File",
    "1. Paste a URL into \tspace_queue.txt\t.",
    "2. Commit and push the change.",
    "3. The pipeline will process it and clear the file automatically.",
    "",
    "## RSS Feed",
    "",
    "Your podcast feed is available at:"
  >>

\* templates.ts:347-366, the README after the feed URL.
ReadmeTail ==
  <<
    "",
    "Submit this URL to YouTube Podcast ingestion.",
    "",
    "## Directory Structure",
    "",
    "\t<U+0060><U+0060><U+0060>",
    "\t/",
    "\t<U+251C><U+2500> .github/",
    "\t<U+2502>  <U+2514><U+2500> workflows/",
    "\t<U+2502>     <U+251C><U+2500> ingest.yml      # Main pipeline logic",
    "\t<U+2502>     <U+2514><U+2500> test_audio.yml  # (Optional) Audio checks",
    "\t<U+251C><U+2500> scripts/",
    "\t<U+2502>  <U+2514><U+2500> ingest.sh         # Download & Process script",
    "\t<U+251C><U+2500> space_queue.txt      # Input queue",
    "\t<U+2514><U+2500> README.md",
    "\t<U+0060><U+0060><U+0060>",
    "",
    "## Configuration",
    "",
    "Update \t.github/workflows/ingest.yml\t environment variables to change podcast metadata (Title, Author, Image)."
  >>

\* templates.ts:369, the sample queue line.
QueueFileText ==
  <<
    "https://twitter.com/i/spaces/1DXxyvjZpZQKM"
  >>

\* templates.ts:372-386, the diagnostic workflow.
TestAudioYamlText ==
  <<
    "name: Test Audio Tools",
    "",
    "on: [workflow_dispatch]",
    "",
    "jobs:",
    "  test-env:",
    "    runs-on: ubuntu-latest",
    "    steps:",
    "      - uses: actions/checkout@11bd71901bbe5b1630ceea73d27597364c9af683 # v4.2.2",
    "      - name: Check ffmpeg",
    "        run: ffmpeg -version",
    "      - name: Check yt-dlp",
    "        run: |",
    "          python3 -m pip install yt-dlp",
    "          yt-dlp --version"
  >>

(***************************************************************************)
(* utils/templates.ts: the five generators.                                *)
(***************************************************************************)
\* The author's assignment filled from the title.
PodcastEnvLines_titleAsAuthor(cfg) ==
  << "          PODCAST_TITLE: \"" \o Subst(cfg, "podcastTitle") \o "\"",
     "          PODCAST_DESC: \"" \o Subst(cfg, "podcastDescription") \o "\"",
     "          PODCAST_AUTHOR: \"" \o Subst(cfg, "podcastTitle") \o "\"",
     "          PODCAST_EMAIL: \"" \o Subst(cfg, "email") \o "\"",
     "          PODCAST_IMAGE: \"" \o Subst(cfg, "imageUrl") \o "\"" >>

\* The five PODCAST_* assignments, lines 104-108 of templates.ts.
PodcastEnvLines(cfg) ==
  << "          PODCAST_TITLE: \"" \o Subst(cfg, "podcastTitle") \o "\"",
     "          PODCAST_DESC: \"" \o Subst(cfg, "podcastDescription") \o "\"",
     "          PODCAST_AUTHOR: \"" \o Subst(cfg, "authorName") \o "\"",
     "          PODCAST_EMAIL: \"" \o Subst(cfg, "email") \o "\"",
     "          PODCAST_IMAGE: \"" \o Subst(cfg, "imageUrl") \o "\"" >>

\* A module-level buffer that keeps what an earlier call wrote.
generateIngestYaml_buffered(cfg) ==
  (IF outA = NoText THEN << >> ELSE <<"# regenerated">>)
    \o IngestYamlHead \o PodcastEnvLines(cfg) \o IngestYamlTail

\* A generator that validates its input and throws on an empty title.
generateIngestYaml_validating(cfg) ==
  IF Subst(cfg, "podcastTitle") = "" THEN NoText
  ELSE IngestYamlHead \o PodcastEnvLines(cfg) \o IngestYamlTail

\* A workflow whose job rss is handed an output of the job ingest.
generateIngestYaml_passing(cfg) ==
  IngestYamlHead
    \o << "          MP3_PATH: ${{ needs.ingest.outputs.mp3_path }}" >>
    \o PodcastEnvLines(cfg) \o IngestYamlTail

generateIngestYaml(cfg) ==
  IngestYamlHead \o PodcastEnvLines(cfg) \o IngestYamlTail

\* A script that names the repository in a leading comment.
generateIngestScript_withRepo(cfg) ==
  <<IngestScriptText[1], "# " \o Subst(cfg, "repoName")>>
    \o Tail(IngestScriptText)

generateIngestScript(cfg) == IngestScriptText

\* Line 326: the heading.
ReadmeHeading(cfg) == "# " \o Subst(cfg, "podcastTitle") \o " Pipeline"

\* Owner and repository in each other's place.
ReadmeFeedLine_swapped(cfg) ==
  "\thttps://" \o Subst(cfg, "repoName") \o ".github.io/"
    \o Subst(cfg, "ownerName") \o "/podcast.xml"

\* Line 346: the feed URL, indented by a tab.
ReadmeFeedLine(cfg) ==
  "\thttps://" \o Subst(cfg, "ownerName") \o ".github.io/"
    \o Subst(cfg, "repoName") \o "/podcast.xml"

\* A README that also prints the description under the heading.
generateReadme_withDescription(cfg) ==
  <<ReadmeHeading(cfg), Subst(cfg, "podcastDescription")>>
    \o Tail(ReadmeBody) \o <<ReadmeFeedLine(cfg)>> \o ReadmeTail

generateReadme(cfg) ==
  <<ReadmeHeading(cfg)>> \o ReadmeBody \o <<ReadmeFeedLine(cfg)>>
    \o ReadmeTail

generateQueueFile(cfg) == QueueFileText

generateTestAudioYaml(cfg) == TestAudioYamlText

(***************************************************************************)
(* App.tsx: the registry.  A descriptor's content names its generator.     *)
(***************************************************************************)
FilesLiteral ==
  << [path |-> ".github/workflows/ingest.yml", name |-> "Workflow",
      language |-> "yaml", content |-> "generateIngestYaml",
      description |-> "Main GitHub Action for download, release, and RSS."],
     [path |-> "scripts/ingest.sh", name |-> "Ingest Script",
      language |-> "bash", content |-> "generateIngestScript",
      description |-> "Shell script to handle yt-dlp operations safely."],
     [path |-> "space_queue.txt", name |-> "Queue File",
      language |-> "text", content |-> "generateQueueFile",
      description |-> "The input trigger file. Paste URL here."],
     [path |-> "README.md", name |-> "Documentation",
      language |-> "markdown", content |-> "generateReadme",
      description |-> "Instructions for repository users."],
     [path |-> ".github/workflows/test_audio.yml", name |-> "Test Workflow",
      language |-> "yaml", content |-> "generateTestAudioYaml",
      description |-> "Optional workflow to verify runner capabilities."] >>

\* file.content(config): the call of the generator the descriptor holds.
CallContent(file, cfg) ==
  CASE file.content = "generateIngestYaml" -> generateIngestYaml(cfg)
    [] file.content = "generateIngestScript" -> generateIngestScript(cfg)
    [] file.content = "generateQueueFile" -> generateQueueFile(cfg)
    [] file.content = "generateReadme" -> generateReadme(cfg)
    [] file.content = "generateTestAudioYaml" -> generateTestAudioYaml(cfg)



(***************************************************************************)
(* App.tsx and FileViewer.tsx: the session.                                *)
(***************************************************************************)
\* What a user types into the input named name (e.target.value).
InputValues(name) ==
  CASE name = "repoName" -> {"", "spaces"}
    [] name = "ownerName" -> {"", "acme"}
    [] name = "podcastTitle" -> {"", "Acme Spaces"}
    [] name = "podcastDescription" -> {"", "say \"hi\" & <bye>"}
    [] name = "authorName" -> {"", "  "}
    [] name = "email" -> {"", "not-an-email"}
    [] name = "imageUrl" -> {"", "htp:/bad url"}

\* { ...DEFAULT_CONFIG, [name]: value }: the other fields fall back.
SpreadWith_overDefault(prev, name, value) ==
  [f \in DOMAIN DEFAULT_CONFIG \cup {name} |->
     IF f = name THEN Str(value) ELSE DEFAULT_CONFIG[f]]

\* A validating handler: an empty value is rejected, the record kept.
SpreadWith_validated(prev, name, value) ==
  IF value = "" THEN prev
  ELSE [f \in DOMAIN prev \cup {name} |->
          IF f = name THEN Str(value) ELSE prev[f]]

\* { ...prev, [name]: value }: a new object.
SpreadWith(prev, name, value) ==
  [f \in DOMAIN prev \cup {name} |-> IF f = name THEN Str(value) ELSE prev[f]]

\* useState: the state after construction (App.tsx lines 62-64); FileViewer
\* is not mounted while the configuration tab is shown.
UIInit ==
  /\ FILES = FilesLiteral
  /\ DEFAULT_CONFIG = DefaultConfigLiteral
  /\ config = DefaultConfigLiteral
  /\ configIsDefault = TRUE
  /\ activeFile = FilesLiteral[1]
  /\ activeTab = "config"
  /\ content = NoText
  /\ copied = FALSE
  /\ clipboard = NoText
  /\ edits = 0

\* A render that keeps the text of the configuration the page started with.
FileViewerContent_initial(file, cfg) == CallContent(file, DefaultConfigLiteral)

\* FileViewer's render: const content = file.content(config).
FileViewerContent(file, cfg) == CallContent(file, cfg)

\* onChange of one of the seven inputs, which exist only on the
\* configuration tab; the event is a change of the input's value.
handleConfigChange(name, value) ==
  /\ activeTab = "config"
  /\ edits < MaxEdits
  /\ Str(value) # GetField(config, name)
  /\ config' = SpreadWith(config, name, value)
  /\ configIsDefault' = FALSE
  /\ edits' = edits + 1
  /\ UNCHANGED <<FILES, DEFAULT_CONFIG, activeFile, activeTab, content,
                 copied, clipboard>>

\* A handler that also moves the selected descriptor to the front.
SelectFile_moveToFront(i) ==
  /\ activeFile' = FILES[i]
  /\ activeTab' = "files"
  /\ content' = FileViewerContent(FILES[i], config)
  /\ copied' = IF activeTab = "files" THEN copied ELSE FALSE
  /\ FILES' = <<FILES[i]>> \o SelectSeq(FILES, LAMBDA f : f # FILES[i])
  /\ UNCHANGED <<DEFAULT_CONFIG, config, configIsDefault, clipboard, edits>>

\* A handler that selects the descriptor and leaves the tab as it is.
SelectFile_keepTab(i) ==
  /\ activeFile' = FILES[i]
  /\ content' = IF activeTab = "files"
                THEN FileViewerContent(FILES[i], config) ELSE NoText
  /\ UNCHANGED <<FILES, DEFAULT_CONFIG, config, configIsDefault, activeTab,
                 copied, clipboard, edits>>

\* onClick of the sidebar button of FILES[i]; FileViewer keeps its state
\* when it was mounted already, and mounts with copied = false otherwise.
SelectFile(i) ==
  /\ activeFile' = FILES[i]
  /\ activeTab' = "files"
  /\ content' = FileViewerContent(FILES[i], config)
  /\ copied' = IF activeTab = "files" THEN copied ELSE FALSE
  /\ UNCHANGED <<FILES, DEFAULT_CONFIG, config, configIsDefault, clipboard,
                 edits>>

\* onClick of the Configuration button: FileViewer unmounts.
ShowConfiguration ==
  /\ activeTab' = "config"
  /\ content' = NoText
  /\ copied' = FALSE
  /\ UNCHANGED <<FILES, DEFAULT_CONFIG, config, configIsDefault, activeFile,
                 clipboard, edits>>

\* onClick of View Generated Files, a button of the configuration tab.
ViewGeneratedFiles ==
  /\ activeTab = "config"
  /\ activeTab' = "files"
  /\ content' = FileViewerContent(activeFile, config)
  /\ copied' = FALSE
  /\ UNCHANGED <<FILES, DEFAULT_CONFIG, config, configIsDefault, activeFile,
                 clipboard, edits>>

\* FileViewer's Copy File button.
handleCopy ==
  /\ activeTab = "files"
  /\ clipboard' = content
  /\ copied' = TRUE
  /\ UNCHANGED <<FILES, DEFAULT_CONFIG, config, configIsDefault, activeFile,
                 activeTab, content, edits>>

\* The callback of setTimeout(..., 2000): while copied is true the timer of
\* the last copy is pending; a timer that fires later changes nothing.
CopiedTimeout ==
  /\ activeTab = "files"
  /\ copied
  /\ copied' = FALSE
  /\ UNCHANGED <<FILES, DEFAULT_CONFIG, config, configIsDefault, activeFile,
                 activeTab, content, clipboard, edits>>

\* No direct call of a generator is in progress.
GenIdle ==
  /\ cfgA = DefaultConfigLiteral
  /\ cfgB = DefaultConfigLiteral
  /\ callee = 0
  /\ calls = 0
  /\ outA = NoText
  /\ outB = NoText

\* No script is running, and no run of the workflow was triggered.
ShIdle == [pc |-> "none"]

WfIdle == [pc |-> "none"]

PipeIdle ==
  /\ sh = ShIdle
  /\ wf = WfIdle
  /\ runs = << >>

Init == UIInit /\ GenIdle /\ PipeIdle

Next ==
  \/ \E name \in PipelineConfigFields :
       \E value \in InputValues(name) :
         handleConfigChange(name, value) /\ UNCHANGED <<genVars, pipeVars>>
  \/ \E i \in 1..Len(FILES) : SelectFile(i) /\ UNCHANGED <<genVars, pipeVars>>
  \/ ShowConfiguration /\ UNCHANGED <<genVars, pipeVars>>
  \/ ViewGeneratedFiles /\ UNCHANGED <<genVars, pipeVars>>
  \/ handleCopy /\ UNCHANGED <<genVars, pipeVars>>
  \/ CopiedTimeout /\ UNCHANGED <<genVars, pipeVars>>

Spec == Init /\ [][Next]_vars

(***************************************************************************)
(* Direct calls of the generators: the exported functions of templates.ts  *)
(* applied to two records, the second a variant of the first.  A caller    *)
(* outside TypeScript's checks may pass a record that lacks a field, holds *)
(* null in it, or carries a property PipelineConfig does not name.         *)
(***************************************************************************)
\* Every field the empty string.
EmptyConfig == [f \in PipelineConfigFields |-> Str("")]

\* The record of the documentation scenario: acme, spaces, Acme Spaces.
ScenarioConfig ==
  [DefaultConfigLiteral EXCEPT !.ownerName = Str("acme"),
                               !.repoName = Str("spaces"),
                               !.podcastTitle = Str("Acme Spaces")]

BaseConfigs == {DefaultConfigLiteral, ScenarioConfig, EmptyConfig}

\* The record c with property f set to v.
WithField(c, f, v) ==
  [g \in DOMAIN c \cup {f} |-> IF g = f THEN v ELSE c[g]]

\* The record c without property f.
WithoutField(c, f) == [g \in DOMAIN c \ {f} |-> c[g]]

\* The records one change away from c: a field set to another string or to
\* null, a field deleted, a foreign property added.
OneChange(c) ==
  UNION { {WithField(c, f, Str(s)) : s \in InputValues(f)}
            \cup {WithField(c, f, Null)}
            \cup (IF f \in DOMAIN c THEN {WithoutField(c, f)} ELSE {})
          : f \in PipelineConfigFields }
    \cup {WithField(c, "extra", Str("x"))}

RECURSIVE Variants(_, _)
\* The records at most n changes away from c.
Variants(c, n) ==
  IF n = 0 THEN {c}
  ELSE LET near == Variants(c, n - 1)
       IN near \cup UNION {OneChange(d) : d \in near}

GenInit ==
  /\ UIInit
  /\ cfgA \in BaseConfigs
  /\ cfgB \in Variants(cfgA, MaxOverrides)
  /\ callee = 0
  /\ calls = 0
  /\ outA = NoText
  /\ outB = NoText
  /\ PipeIdle

\* FILES[d].content(cfgA): a first call of generator d.
Call(d) ==
  /\ callee' = d
  /\ calls' = 1
  /\ outA' = CallContent(FILES[d], cfgA)
  /\ outB' = NoText
  /\ UNCHANGED <<cfgA, cfgB>>

\* FILES[callee].content(cfgB): a later call of the same generator.
CallAgain ==
  /\ callee # 0
  /\ calls' = 2
  /\ outB' = CallContent(FILES[callee], cfgB)
  /\ UNCHANGED <<cfgA, cfgB, callee, outA>>

GenNext ==
  \/ \E d \in 1..Len(FILES) : Call(d) /\ UNCHANGED <<uiVars, pipeVars>>
  \/ CallAgain /\ UNCHANGED <<uiVars, pipeVars>>

GenSpec == GenInit /\ [][GenNext]_vars

(***************************************************************************)
(* Helpers of the properties.                                              *)
(***************************************************************************)
StartsWith(s, p) == Len(s) >= Len(p) /\ SubSeq(s, 1, Len(p)) = p

Contains(s, part) ==
  \E i \in 1..(Len(s) - Len(part) + 1) : SubSeq(s, i, i + Len(part) - 1) = part

RECURSIVE StripIndent(_)
\* The line without the blanks and tabs it starts with.
StripIndent(s) ==
  IF Len(s) > 0 /\ SubSeq(s, 1, 1) \in {" ", "\t"}
  THEN StripIndent(SubSeq(s, 2, Len(s)))
  ELSE s

\* A record as TypeScript admits it: every field of PipelineConfig a string.
IsPipelineConfig(c) ==
  /\ PipelineConfigFields \subseteq DOMAIN c
  /\ \A f \in PipelineConfigFields : c[f].type = "string"

\* Reading any of the seven fields gives the same value in c1 and in c2.
SevenFieldsEqual(c1, c2) ==
  \A f \in PipelineConfigFields : GetField(c1, f) = GetField(c2, f)

\* The fields of PipelineConfig that c1 and c2 read differently.
DifferingFields(c1, c2) ==
  {f \in PipelineConfigFields : GetField(c1, f) # GetField(c2, f)}

\* Both calls of generator callee have returned.
BothReturned == calls = 2 /\ outA # NoText /\ outB # NoText

Callee == FILES[callee].content

\* The lines at which two texts differ (a missing line differs).
DiffLines(t1, t2) ==
  {i \in 1..(IF Len(t1) > Len(t2) THEN Len(t1) ELSE Len(t2)) :
     \/ i > Len(t1)
     \/ i > Len(t2)
     \/ t1[i] # t2[i]}

C2_ConfigIndependent ==
  (BothReturned /\ Callee \in {"generateIngestScript", "generateQueueFile",
                               "generateTestAudioYaml"})
    => outA = outB

\* The script generator was called with two records that differ in two
\* fields.
C2_Witness ==
  /\ BothReturned
  /\ Callee = "generateIngestScript"
  /\ IsPipelineConfig(cfgA) /\ IsPipelineConfig(cfgB)
  /\ Cardinality(DifferingFields(cfgA, cfgB)) >= 2
  /\ outA = outB

(***************************************************************************)
(* C3.  generateIngestYaml substitutes exactly podcastTitle,               *)
(* podcastDescription, authorName, email and imageUrl, each only into its  *)
(* own PODCAST_* assignment of the step Generate RSS Feed: two records     *)
(* that agree on the five yield the same text whatever their ownerName and *)
(* repoName, and the lines at which two texts differ are exactly the       *)
(* assignments of the fields that differ.                                  *)
(***************************************************************************)
PodcastEnvNames ==
  [podcastTitle |-> "PODCAST_TITLE", podcastDescription |-> "PODCAST_DESC",
   authorName |-> "PODCAST_AUTHOR", email |-> "PODCAST_EMAIL",
   imageUrl |-> "PODCAST_IMAGE"]

\* The assignment of field f with value s, as the workflow writes it.
EnvAssignment(f, s) == "          " \o PodcastEnvNames[f] \o ": \"" \o s \o "\""

\* The lines of text t that are the assignment of f with value s.
AssignmentLines(t, f, s) ==
  LET line == EnvAssignment(f, s) IN {i \in 1..Len(t) : t[i] = line}

StepPrefix == "      - name: "

\* The step a line of a workflow belongs to: the nearest step header above.
StepOf(t, i) ==
  LET above == {j \in 1..i : StartsWith(t[j], StepPrefix)}
  IN IF above = {} THEN ""
     ELSE LET j == CHOOSE k \in above : \A m \in above : m <= k
          IN SubSeq(t[j], Len(StepPrefix) + 1, Len(t[j]))

C3_FiveFields ==
  (BothReturned /\ Callee = "generateIngestYaml"
     /\ IsPipelineConfig(cfgA) /\ IsPipelineConfig(cfgB))
    => /\ (\A f \in DOMAIN PodcastEnvNames : cfgA[f] = cfgB[f]) => outA = outB
       /\ \A f \in DOMAIN PodcastEnvNames :
            LET inA == AssignmentLines(outA, f, cfgA[f].str)
                inB == AssignmentLines(outB, f, cfgB[f].str)
            IN /\ Cardinality(inA) = 1
               /\ inA = inB
               /\ \A i \in inA :
                    /\ StepOf(outA, i) = "Generate RSS Feed"
                    /\ (cfgA[f] # cfgB[f]) <=> (outA[i] # outB[i])
       /\ Cardinality(DiffLines(outA, outB))
            = Cardinality(DifferingFields(cfgA, cfgB)
                            \cap DOMAIN PodcastEnvNames)

\* Two records that differ in podcastTitle and in ownerName went through
\* the workflow generator, and their texts differ in one line.
C3_Witness ==
  /\ BothReturned /\ Callee = "generateIngestYaml"
  /\ IsPipelineConfig(cfgA) /\ IsPipelineConfig(cfgB)
  /\ DifferingFields(cfgA, cfgB) = {"podcastTitle", "ownerName"}
  /\ Cardinality(DiffLines(outA, outB)) = 1

(***************************************************************************)
(* C4.  generateReadme substitutes exactly podcastTitle, ownerName and     *)
(* repoName: two records that differ in podcastTitle only yield texts that *)
(* differ in the heading only, ownerName and repoName reach the feed URL   *)
(* line only, and podcastDescription, authorName, email and imageUrl       *)
(* change nothing.                                                         *)
(***************************************************************************)
\* The line of a README that shows the feed URL.
IsFeedLine(line) == StartsWith(StripIndent(line), "https://")

C4_ReadmeFields ==
  (BothReturned /\ Callee = "generateReadme"
     /\ IsPipelineConfig(cfgA) /\ IsPipelineConfig(cfgB))
    => LET diff == DifferingFields(cfgA, cfgB)
           lines == DiffLines(outA, outB)
       IN /\ Len(outA) = Len(outB)
          /\ ("podcastTitle" \in diff) <=> (1 \in lines)
          /\ (diff \cap {"ownerName", "repoName"} # {})
               <=> (\E i \in lines : IsFeedLine(outA[i]))
          /\ \A i \in lines : i = 1 \/ IsFeedLine(outA[i])
          /\ Cardinality(lines \ {1}) <= 1
          /\ (diff \cap {"podcastTitle", "ownerName", "repoName"} = {})
               => outA = outB

\* Two records that differ in podcastTitle and in email went through the
\* README generator, and their texts differ in the heading alone.
C4_Witness ==
  /\ BothReturned /\ Callee = "generateReadme"
  /\ IsPipelineConfig(cfgA) /\ IsPipelineConfig(cfgB)
  /\ DifferingFields(cfgA, cfgB) = {"podcastTitle", "email"}
  /\ DiffLines(outA, outB) = {1}

(***************************************************************************)
(* C5.  For non-empty ownerName and repoName the README holds a line that  *)
(* is, after its indentation, exactly                                      *)
(* https://{ownerName}.github.io/{repoName}/podcast.xml, and its heading   *)
(* contains podcastTitle; for acme, spaces and Acme Spaces the line is     *)
(* https://acme.github.io/spaces/podcast.xml.                              *)
(***************************************************************************)
FeedUrl(owner, repo) ==
  "https://" \o owner \o ".github.io/" \o repo \o "/podcast.xml"

ReadmeShowsFeed(c, t) ==
  /\ \E i \in 1..Len(t) :
       StripIndent(t[i]) = FeedUrl(c.ownerName.str, c.repoName.str)
  /\ StartsWith(t[1], "# ")
  /\ Contains(t[1], c.podcastTitle.str)
  /\ (c = ScenarioConfig)
       => /\ \E i \in 1..Len(t) :
               StripIndent(t[i]) = "https://acme.github.io/spaces/podcast.xml"
          /\ Contains(t[1], "Acme Spaces")

NamesRepository(c) ==
  /\ IsPipelineConfig(c)
  /\ c.ownerName.str # ""
  /\ c.repoName.str # ""

IsSkeletonLine(line) ==
  \/ line \in {"jobs:", "  ingest:", "  rss:"}
  \/ StartsWith(line, StepPrefix)

WorkflowSkeleton ==
  << "jobs:",
     "  ingest:",
     "      - name: Checkout",
     "      - name: Install ffmpeg",
     "      - name: Set up Python",
     "      - name: Install yt-dlp",
     "      - name: Run Ingest Script",
     "      - name: Extract MP3 Duration",
     "      - name: Clear Queue File",
     "      - name: Create Release",
     "  rss:",
     "      - name: Checkout",
     "      - name: Generate RSS Feed",
     "      - name: Validate RSS",
     "      - name: Upload Pages Artifact",
     "      - name: Deploy to GitHub Pages" >>

\* What a call that received record c returned is a text, complete when it
\* is a workflow with an empty title.
ReturnedText(c, t) ==
  /\ t # NoText
  /\ \A i \in 1..Len(t) : Len(t[i]) >= 0
  /\ (Callee = "generateIngestYaml" /\ c.podcastTitle.str = "")
       => /\ SelectSeq(t, IsSkeletonLine) = WorkflowSkeleton
          /\ AssignmentLines(t, "podcastTitle", "") # {}

C9_Total ==
  /\ (calls >= 1 /\ IsPipelineConfig(cfgA)) => ReturnedText(cfgA, outA)
  /\ (calls = 2 /\ IsPipelineConfig(cfgB)) => ReturnedText(cfgB, outB)

\* The workflow was generated from the record of seven empty strings.
C9_Witness ==
  /\ calls >= 1 /\ Callee = "generateIngestYaml"
  /\ cfgA = EmptyConfig
  /\ outA # NoText

(***************************************************************************)
(* C10.  As claimed: a record that lacks a field, or holds null in it,     *)
(* yields the text of the record with the empty string in that field.      *)
(***************************************************************************)
\* c2 is c1 with some empty fields deleted or set to null.
EmptiedFields(c1, c2) ==
  {f \in PipelineConfigFields :
     c1[f] = Str("") /\ GetField(c2, f) \in {Null, Undefined}}

C10_MissingAsEmpty ==
  (BothReturned /\ IsPipelineConfig(cfgA)
     /\ EmptiedFields(cfgA, cfgB) # {}
     /\ DifferingFields(cfgA, cfgB) = EmptiedFields(cfgA, cfgB))
    => outA = outB

(***************************************************************************)
(* C10, amended.  A record that lacks a field, or holds null in it, does   *)
(* not make a generator fail: the call returns the text of the record with *)
(* the string undefined, or null, in that field.                           *)
(***************************************************************************)
\* The record of seven strings that spells out what c lacks.
Spelled(c) ==
  [f \in PipelineConfigFields |->
     LET v == GetField(c, f)
     IN IF v = Undefined THEN Str("undefined")
        ELSE IF v = Null THEN Str("null")
        ELSE v]

C10_MissingAsText ==
  (calls = 2)
    => /\ outB # NoText
       /\ outB = CallContent(FILES[callee], Spelled(cfgB))

\* The workflow was generated from a record without podcastTitle, or the
\* README from a record that holds null in ownerName.
C10_Witness ==
  /\ calls = 2 /\ outB # NoText
  /\ \/ Callee = "generateIngestYaml" /\ "podcastTitle" \notin DOMAIN cfgB
     \/ Callee = "generateReadme" /\ GetField(cfgB, "ownerName") = Null

(***************************************************************************)
(* C6.  In every state of a session the registry holds exactly five        *)
(* descriptors with pairwise-distinct paths, in the order ingest.yml,      *)
(* ingest.sh, space_queue.txt, README.md, test_audio.yml, each as it was   *)
(* registered.                                                             *)
(***************************************************************************)
C6_Registry ==
  /\ Len(FILES) = 5
  /\ \A i, j \in 1..Len(FILES) : i # j => FILES[i].path # FILES[j].path
  /\ [i \in 1..Len(FILES) |-> FILES[i].path]
       = << ".github/workflows/ingest.yml", "scripts/ingest.sh",
            "space_queue.txt", "README.md",
            ".github/workflows/test_audio.yml" >>
  /\ FILES = FilesLiteral

\* After two edits the fourth file was selected, shown and copied.
C6_Witness ==
  /\ edits >= 2
  /\ activeTab = "files"
  /\ activeFile.path = "README.md"
  /\ clipboard = content
  /\ copied

(***************************************************************************)
(* C7.  A change event of the input named n with value v leaves a record   *)
(* whose field n is v and whose other six fields are as before, and the    *)
(* object that was the record before (DEFAULT_CONFIG, while no edit was    *)
(* made) still holds its values.                                           *)
(***************************************************************************)
C7_EditFrame ==
  [][\A n \in PipelineConfigFields :
       \A v \in InputValues(n) :
         handleConfigChange(n, v)
           => /\ config'[n] = Str(v)
              /\ DOMAIN config' = PipelineConfigFields
              /\ \A f \in PipelineConfigFields \ {n} : config'[f] = config[f]
              /\ configIsDefault => DEFAULT_CONFIG' = config
              /\ DEFAULT_CONFIG' = DefaultConfigLiteral]_vars

\* One field was edited, then another: the first edit is still there.
C7_Witness ==
  /\ edits = 2
  /\ config.email = Str("not-an-email")
  /\ config.podcastTitle = Str("")
  /\ \A f \in PipelineConfigFields \ {"email", "podcastTitle"} :
       config[f] = DefaultConfigLiteral[f]

(***************************************************************************)
(* C8.  No input is validated: whatever the field and the value, an empty  *)
(* one, a malformed URL and an invalid address included, the change is     *)
(* accepted, the field holds exactly that value afterwards, and the text   *)
(* shown carries the value of each field verbatim at its substitution      *)
(* points.                                                                 *)
(***************************************************************************)
\* The text t of file shows the fields of record c as they are.
Verbatim(file, c, t) ==
  /\ file.content = "generateIngestYaml"
       => \A f \in DOMAIN PodcastEnvNames :
            AssignmentLines(t, f, c[f].str) # {}
  /\ file.content = "generateReadme"
       => /\ t[1] = "# " \o c.podcastTitle.str \o " Pipeline"
          /\ \E i \in 1..Len(t) :
               StripIndent(t[i]) = FeedUrl(c.ownerName.str, c.repoName.str)

C8_NoValidation ==
  [][/\ \A n \in PipelineConfigFields :
          \A v \in InputValues(n) :
            /\ (activeTab = "config" /\ edits < MaxEdits
                  /\ Str(v) # config[n])
                 => ENABLED handleConfigChange(n, v)
            /\ handleConfigChange(n, v) => config'[n] = Str(v)
     /\ content' # NoText => Verbatim(activeFile', config', content')]_vars

\* A malformed URL and an empty title were typed and the workflow shown.
C8_Witness ==
  /\ config.imageUrl = Str("htp:/bad url")
  /\ config.podcastTitle = Str("")
  /\ activeTab = "files"
  /\ activeFile.content = "generateIngestYaml"
  /\ content # NoText

(***************************************************************************)
(* C11.  Generation is never cached: in every state in which the file view *)
(* is shown, the displayed text is activeFile.content(config) for the      *)
(* current configuration record, and a copy made from the file view puts   *)
(* exactly that text on the clipboard; no text computed from an earlier    *)
(* configuration is displayed.                                             *)
(***************************************************************************)
C11_NeverCached ==
  [][ /\ activeTab' = "files" => content' = CallContent(activeFile', config')
      /\ handleCopy => clipboard' = CallContent(activeFile, config) ]_vars

\* The file view of the README is shown again after an edit: the clipboard
\* still holds the text copied under the first configuration, and the text
\* displayed now differs from it.
C11_Witness ==
  /\ activeTab = "files"
  /\ activeFile.path = "README.md"
  /\ edits > 0
  /\ clipboard = CallContent(activeFile, DefaultConfigLiteral)
  /\ content # clipboard

(***************************************************************************)
(* A run of an ingest script under bash with set -euo pipefail.  Two       *)
(* scripts are modelled: "generated", the text generateIngestScript        *)
(* returns, and "extended", src/scripts/ingest.sh.  The record sh holds    *)
(* the process: its environment (MANUAL_URL, GITHUB_OUTPUT, the queue      *)
(* file, what the downloader will do), the shell variables, the lines      *)
(* echoed, the lines appended to the file GITHUB_OUTPUT names, and the     *)
(* exit status once pc is "exited".  A variable of the environment is      *)
(* [set |-> FALSE, val |-> ""] when unset.                                 *)
(***************************************************************************)
EnvUnset == [set |-> FALSE, val |-> ""]

EnvSet(s) == [set |-> TRUE, val |-> s]

\* The characters of the class [:space:] that the samples use.
SpaceChars == {" ", "\t", "\r"}

RECURSIVE RemoveSpace(_)
\* tr -d '[:space:]'
RemoveSpace(s) ==
  IF s = "" THEN ""
  ELSE LET c == SubSeq(s, 1, 1)
           rest == RemoveSpace(SubSeq(s, 2, Len(s)))
       IN IF c \in SpaceChars THEN rest ELSE c \o rest

\* A line that matches '^[[:space:]]*$'.
IsBlankLine(l) == RemoveSpace(l) = ""

\* The word between the first two double quotes of a line of a script.
QuotedWord(line) ==
  LET q == {i \in 1..Len(line) : SubSeq(line, i, i) = "\""}
      a == CHOOSE i \in q : \A j \in q : i <= j
      b == CHOOSE i \in q \ {a} : \A j \in q \ {a} : i <= j
  IN SubSeq(line, a + 1, b - 1)

\* The expansion of a double-quoted word under set -u: ${name:-} is the
\* value or the empty string, $name is the value or an error when name is
\* unset, and a word without a dollar sign is itself.
ExpandWord(word, name, var) ==
  CASE word = "${" \o name \o ":-}" ->
         [bound |-> TRUE, val |-> IF var.set THEN var.val ELSE ""]
    [] word = "$" \o name -> [bound |-> var.set, val |-> var.val]
    [] OTHER -> [bound |-> TRUE, val |-> word]

\* The word tested by [[ -n ... ]] in section 1 of the script.
ManualUrlTestWord(script) ==
  IF script = "generated" THEN QuotedWord(IngestScriptText[14])
  ELSE "${MANUAL_URL:-}"

\* The word tested by [[ -n ... ]] before the outputs are written.
OutputTestWord(script) ==
  IF script = "generated" THEN QuotedWord(IngestScriptText[72])
  ELSE "${GITHUB_OUTPUT:-}"

\* A pipeline without || true in either script.
QueuePipeline_strict(script, lines) ==
  LET kept == SelectSeq(lines, LAMBDA l : ~IsBlankLine(l))
  IN [out |-> IF kept = << >> THEN "" ELSE RemoveSpace(kept[1]),
      status |-> IF kept = << >> THEN 1 ELSE 0]

\* grep -v '^[[:space:]]*$' "$QUEUE_FILE" | head -n 1 | tr -d '[:space:]'
\* under pipefail: grep ends with status 1 when it selects no line, and that
\* is the status of the pipeline; the extended script appends || true.
QueuePipeline(script, lines) ==
  LET kept == SelectSeq(lines, LAMBDA l : ~IsBlankLine(l))
  IN [out |-> IF kept = << >> THEN "" ELSE RemoveSpace(kept[1]),
      status |-> IF kept = << >> /\ script = "generated" THEN 1 ELSE 0]

Echo(s, line) == [s EXCEPT !.stdout = Append(@, line)]

EchoAll(s, lines) == [s EXCEPT !.stdout = @ \o lines]

\* exit n, and the end of the script.
Exit(s, n) == [s EXCEPT !.pc = "exited", !.status = n]

\* set -e: a command that fails ends the script with the command's status.
ErrExit(s, n) == [s EXCEPT !.pc = "exited", !.status = n]

\* set -u: the expansion of an unset variable ends the script, with the
\* shell's message on stderr.
Abort(s, message) ==
  [s EXCEPT !.pc = "exited", !.status = 1, !.stderr = Append(@, message)]

\* echo line >> "$GITHUB_OUTPUT": an unset variable ends the script, and so
\* does a redirection to the empty file name.
AppendOutput(s, line) ==
  IF s.pc = "exited" THEN s
  ELSE IF ~s.GITHUB_OUTPUT.set
       THEN Abort(s, "GITHUB_OUTPUT: unbound variable")
  ELSE IF s.GITHUB_OUTPUT.val = ""
       THEN ErrExit([s EXCEPT !.stderr =
                                Append(@, ": No such file or directory")], 1)
  ELSE [s EXCEPT !.written = Append(@, line)]

\* Section 1, Determine Input Source.
DetermineInputSource(s) ==
  LET test == ExpandWord(ManualUrlTestWord(s.script), "MANUAL_URL",
                         s.MANUAL_URL)
      value == ExpandWord("$MANUAL_URL", "MANUAL_URL", s.MANUAL_URL)
      said == Echo(s, "Using Manual URL from Workflow Input")
      piped == QueuePipeline(s.script, s.queue.lines)
  IN IF test.val # ""
     THEN IF value.bound
          THEN [said EXCEPT !.TARGET_URL = value.val, !.pc = "validate"]
          ELSE Abort(said, "MANUAL_URL: unbound variable")
     ELSE IF ~s.queue.exists
          THEN Exit(Echo(s, "::error::Queue file space_queue.txt not found!"),
                    1)
     ELSE IF piped.status # 0
          THEN ErrExit([s EXCEPT !.queueRead = TRUE], piped.status)
     ELSE [s EXCEPT !.queueRead = TRUE, !.TARGET_URL = piped.out,
                    !.pc = "validate"]

\* Section 2 of the generated script, Validate URL.
ValidateUrl(s) ==
  IF s.TARGET_URL = ""
  THEN Exit(Echo(s, "::error::No URL found in input or queue file!"), 1)
  ELSE [Echo(s, "Processing URL: " \o s.TARGET_URL) EXCEPT !.pc = "download"]

\* Section 2 of the extended script: an empty queue is a run with nothing
\* to do.
SkipWhenEmpty(s) ==
  IF s.TARGET_URL = ""
  THEN LET said == Echo(s, "Queue is empty. Nothing to process.")
           test == ExpandWord(OutputTestWord(s.script), "GITHUB_OUTPUT",
                              s.GITHUB_OUTPUT)
           noted == IF test.val # "" THEN AppendOutput(said, "skipped=true")
                    ELSE said
       IN IF noted.pc = "exited" THEN noted ELSE Exit(noted, 0)
  ELSE [Echo(s, "Processing URL: " \o s.TARGET_URL) EXCEPT !.pc = "spaceid"]

AlnumChars ==
  {"a", "b", "c", "d", "e", "f", "g", "h", "i", "j", "k", "l", "m", "n", "o",
   "p", "q", "r", "s", "t", "u", "v", "w", "x", "y", "z", "A", "B", "C", "D",
   "E", "F", "G", "H", "I", "J", "K", "L", "M", "N", "O", "P", "Q", "R", "S",
   "T", "U", "V", "W", "X", "Y", "Z", "0", "1", "2", "3", "4", "5", "6", "7",
   "8", "9"}

RECURSIVE TrailingAlnum(_)
\* grep -oE '[a-zA-Z0-9]+$' on one line: the letters and digits it ends with.
TrailingAlnum(s) ==
  IF s = "" \/ SubSeq(s, Len(s), Len(s)) \notin AlnumChars THEN ""
  ELSE TrailingAlnum(SubSeq(s, 1, Len(s) - 1)) \o SubSeq(s, Len(s), Len(s))

\* Extract Space ID from URL (extended script); grep selects nothing from a
\* URL that ends with another character, and the pipeline fails.
ExtractSpaceId(s) ==
  LET id == TrailingAlnum(s.TARGET_URL)
  IN IF id = "" THEN ErrExit(s, 1)
     ELSE [Echo(s, "Space ID: " \o id) EXCEPT !.SPACE_ID = id,
                                               !.pc = "download"]

\* The name yt-dlp gives a file of the download, from --output.
OutputName(s, ext) ==
  IF s.script = "generated"
  THEN "work/" \o s.net.upload_date \o "_" \o s.net.id \o "_" \o s.net.title
         \o ext
  ELSE "work/" \o s.net.today \o "_" \o s.SPACE_ID \o "_" \o s.net.title
         \o ext

\* Sections 3 and 4, Prepare Work Directory and Download and Convert: the
\* downloader fails, or ends without an MP3 file, or leaves the MP3 file
\* and, with --write-info-json, the metadata file.
DownloadAndConvert(s) ==
  LET begun == [Echo(s, IF s.script = "generated" THEN "Starting download..."
                        ELSE "Starting download with metadata extraction...")
                  EXCEPT !.invoked = TRUE, !.DATE = s.net.today]
  IN CASE s.net.outcome = "error" -> ErrExit(begun, 1)
       [] s.net.outcome = "none" -> [begun EXCEPT !.pc = "verify"]
       [] s.net.outcome = "mp3" ->
            [begun EXCEPT !.workDir = {OutputName(begun, ".mp3")},
                          !.pc = "verify"]
       [] s.net.outcome = "mp3+json" ->
            [begun EXCEPT !.workDir = {OutputName(begun, ".mp3"),
                                       OutputName(begun, ".info.json")},
                          !.pc = "verify"]

EndsWith(s, e) ==
  Len(s) >= Len(e) /\ SubSeq(s, Len(s) - Len(e) + 1, Len(s)) = e

\* find "$WORK_DIR" -name "*<ext>" | head -n 1
FindFirst(dir, ext) ==
  LET found == {f \in dir : EndsWith(f, ext)}
  IN IF found = {} THEN "" ELSE CHOOSE f \in found : TRUE

\* Section 5, Verify Output.
VerifyOutput(s) ==
  LET mp3 == FindFirst(s.workDir, ".mp3")
      json == FindFirst(s.workDir, ".info.json")
      found == [s EXCEPT !.MP3_FILE = mp3,
                         !.JSON_FILE = IF s.script = "generated" THEN ""
                                       ELSE json]
  IN IF mp3 = ""
     THEN Exit(Echo(found, "::error::No MP3 file was generated."), 1)
     ELSE [EchoAll(found, IF s.script = "generated"
                          THEN << "Successfully created: " \o mp3 >>
                          ELSE << "MP3 File: " \o mp3,
                                  "Metadata JSON: "
                                    \o (IF json = "" THEN "none" ELSE json) >>)
             EXCEPT !.pc = "metadata"]

\* basename path suffix
Basename(path, suffix) ==
  LET slashes == {i \in 1..Len(path) : SubSeq(path, i, i) = "/"}
      last == IF slashes = {} THEN 0
              ELSE CHOOSE i \in slashes : \A j \in slashes : j <= i
      file == SubSeq(path, last + 1, Len(path))
  IN IF EndsWith(file, suffix) /\ file # suffix
     THEN SubSeq(file, 1, Len(file) - Len(suffix))
     ELSE file

\* ${s:offset:length} and ${s:offset}
Substring(s, offset, length) ==
  IF offset >= Len(s) THEN ""
  ELSE SubSeq(s, offset + 1,
              IF offset + length > Len(s) THEN Len(s) ELSE offset + length)

\* Section 6 of the generated script, Extract Metadata for GitHub Actions.
ExtractMetadata(s) ==
  LET BASENAME == Basename(s.MP3_FILE, ".mp3")
      tag == "\t" \o Substring(BASENAME, 0, 8) \o "_\t" \o s.net.now
      title == "\t" \o Substring(BASENAME, 20, Len(BASENAME))
  IN [s EXCEPT !.RELEASE_TAG = tag,
               !.SPACE_TITLE = IF title = "" THEN BASENAME ELSE title,
               !.pc = "outputs"]

RECURSIVE AppendOutputs(_, _)
AppendOutputs(s, lines) ==
  IF lines = << >> THEN s
  ELSE AppendOutputs(AppendOutput(s, lines[1]), Tail(lines))

\* A script that leaves the title out of its outputs.
GeneratedOutputs_noTitle(s) ==
  << "mp3_path=" \o s.MP3_FILE,
     "release_tag=" \o s.RELEASE_TAG >>

\* The lines section 7 of the generated script appends.
GeneratedOutputs(s) ==
  << "mp3_path=" \o s.MP3_FILE,
     "release_tag=" \o s.RELEASE_TAG,
     "space_title=" \o s.SPACE_TITLE >>

\* Section 7 of the generated script, Set GitHub Output Variables.
SetOutputs(s) ==
  LET test == ExpandWord(OutputTestWord(s.script), "GITHUB_OUTPUT",
                         s.GITHUB_OUTPUT)
      set == IF test.val # "" THEN AppendOutputs(s, GeneratedOutputs(s))
             ELSE s
  IN IF set.pc = "exited" THEN set ELSE Exit(Echo(set, "Done."), 0)

DigitChars == <<"0", "1", "2", "3", "4", "5", "6", "7", "8", "9">>

RECURSIVE Dec(_)
\* The decimal numeral of a natural number.
Dec(n) ==
  IF n < 10 THEN DigitChars[n + 1]
  ELSE Dec(n \div 10) \o DigitChars[(n % 10) + 1]

\* printf '%02d'
Pad2(n) == IF n < 10 THEN "0" \o Dec(n) ELSE Dec(n)

\* printf '%02d:%02d:%02d' $((DURATION/3600)) $((DURATION%3600/60))
\* $((DURATION%60))
FormatDuration(d) ==
  Pad2(d \div 3600) \o ":" \o Pad2((d % 3600) \div 60) \o ":" \o Pad2(d % 60)

\* d.get(field, default) of the metadata yt-dlp wrote.
InfoGet(info, field, default) ==
  IF field \in DOMAIN info THEN info[field] ELSE default

RECURSIVE Translate(_, _, _)
\* tr 'from' 'to' for one character.
Translate(s, from, to) ==
  IF s = "" THEN ""
  ELSE (IF SubSeq(s, 1, 1) = from THEN to ELSE SubSeq(s, 1, 1))
         \o Translate(SubSeq(s, 2, Len(s)), from, to)

RECURSIVE Trim(_)
\* sed 's/^[[:space:]]*//;s/[[:space:]]*$//'
Trim(s) ==
  IF s = "" THEN ""
  ELSE IF SubSeq(s, 1, 1) \in SpaceChars THEN Trim(SubSeq(s, 2, Len(s)))
  ELSE IF SubSeq(s, Len(s), Len(s)) \in SpaceChars
       THEN Trim(SubSeq(s, 1, Len(s) - 1))
  ELSE s

\* sed "s/^prefix//"
StripPrefix(s, prefix) ==
  IF StartsWith(s, prefix) THEN SubSeq(s, Len(prefix) + 1, Len(s)) ELSE s

\* ${name:+word}
IfSet(value, word) == IF value = "" THEN "" ELSE word

\* Section 6 of the extended script: the metadata of the JSON file when
\* there is one, the title of the file name otherwise; then the title
\* cleaned and the duration formatted.
ExtractMetadataJson(s) ==
  LET info == s.net.info
      hasJson == s.JSON_FILE # ""
      duration == IF hasJson THEN InfoGet(info, "duration", 0) ELSE 0
      views == IF hasJson THEN InfoGet(info, "view_count", 0) ELSE 0
      raw == IF hasJson THEN InfoGet(info, "title", "Unknown")
             ELSE StripPrefix(Basename(s.MP3_FILE, ".mp3"),
                              s.DATE \o "_" \o s.SPACE_ID \o "_")
      clean == Trim(Translate(raw, "_", " "))
      release == InfoGet(info, "release_date", "")
      meta == [s EXCEPT
        !.SPACE_TITLE = IF clean = "" THEN "Twitter Space " \o s.SPACE_ID
                        ELSE clean,
        !.UPLOADER = IF hasJson THEN InfoGet(info, "uploader", "Unknown")
                     ELSE "Unknown",
        !.UPLOADER_ID = IF hasJson THEN InfoGet(info, "uploader_id", "")
                        ELSE "",
        !.DESCRIPTION = IF hasJson THEN InfoGet(info, "description", "")
                        ELSE "",
        !.DURATION = Dec(duration),
        !.VIEW_COUNT = Dec(views),
        !.RELEASE_DATE = IF ~hasJson THEN ""
                         ELSE IF release # "" THEN release
                         ELSE InfoGet(info, "upload_date", ""),
        !.CATEGORIES = IF hasJson THEN InfoGet(info, "categories", "")
                       ELSE "",
        !.DURATION_FMT = FormatDuration(duration),
        !.pc = "youtube"]
  IN EchoAll(meta, << "",
                      "=== EXTRACTED METADATA ===",
                      "Title: " \o meta.SPACE_TITLE,
                      "Host: " \o meta.UPLOADER \o " (@" \o meta.UPLOADER_ID
                        \o ")",
                      "Duration: " \o meta.DURATION \o " seconds",
                      "Listeners: " \o meta.VIEW_COUNT,
                      "Date: " \o meta.RELEASE_DATE,
                      "==========================",
                      "" >>)

\* Sections 7 and 8 of the extended script: the description and the
\* metadata file for the upload, and the release tag.
CreateYoutubeMetadata(s) ==
  LET YOUTUBE_DESC ==
        << "Originally recorded on Twitter/X Spaces",
           "",
           "Host: " \o s.UPLOADER
             \o IfSet(s.UPLOADER_ID, " (@" \o s.UPLOADER_ID \o ")"),
           IfSet(s.RELEASE_DATE, "Date: " \o s.RELEASE_DATE),
           "Duration: " \o s.DURATION_FMT,
           IfSet(s.VIEW_COUNT, "Original Listeners: " \o s.VIEW_COUNT),
           "",
           s.DESCRIPTION,
           "",
           "---",
           "Source: " \o s.TARGET_URL,
           "Space ID: " \o s.SPACE_ID >>
      file == "work/" \o s.DATE \o "_" \o s.SPACE_ID
                \o "_youtube_metadata.txt"
      text == << "TITLE=" \o s.SPACE_TITLE,
                 "DESCRIPTION=" \o YOUTUBE_DESC[1] >>
              \o Tail(YOUTUBE_DESC)
              \o << "TAGS=Twitter Space,X Space," \o s.UPLOADER
                      \o IfSet(s.CATEGORIES, "," \o s.CATEGORIES),
                    "ORIGINAL_URL=" \o s.TARGET_URL,
                    "SPACE_ID=" \o s.SPACE_ID,
                    "DURATION=" \o s.DURATION,
                    "DURATION_FMT=" \o s.DURATION_FMT,
                    "HOST=" \o s.UPLOADER,
                    "HOST_HANDLE=" \o s.UPLOADER_ID,
                    "LISTENERS=" \o s.VIEW_COUNT,
                    "RELEASE_DATE=" \o s.RELEASE_DATE >>
  IN [Echo(s, "YouTube metadata saved to: " \o file)
        EXCEPT !.YOUTUBE_META_FILE = file,
               !.youtubeMeta = text,
               !.workDir = @ \cup {file},
               !.RELEASE_TAG = s.DATE \o "_" \o s.SPACE_ID,
               !.pc = "outputs"]

\* The lines section 9 of the extended script appends.
ExtendedOutputs(s) ==
  << "mp3_path=" \o s.MP3_FILE,
     "json_path=" \o s.JSON_FILE,
     "youtube_meta_path=" \o s.YOUTUBE_META_FILE,
     "release_tag=" \o s.RELEASE_TAG,
     "space_title=" \o s.SPACE_TITLE,
     "space_id=" \o s.SPACE_ID,
     "duration=" \o s.DURATION,
     "duration_fmt=" \o s.DURATION_FMT,
     "uploader=" \o s.UPLOADER,
     "uploader_id=" \o s.UPLOADER_ID,
     "view_count=" \o s.VIEW_COUNT >>

\* Section 9 of the extended script, Set GitHub Output Variables.
SetExtendedOutputs(s) ==
  LET test == ExpandWord(OutputTestWord(s.script), "GITHUB_OUTPUT",
                         s.GITHUB_OUTPUT)
      set == IF test.val # "" THEN AppendOutputs(s, ExtendedOutputs(s))
             ELSE s
  IN IF set.pc = "exited" THEN set ELSE Exit(Echo(set, "Done."), 0)

\* One section of the script the process runs.
ScriptSection(s) ==
  CASE s.pc = "input" -> DetermineInputSource(s)
    [] s.pc = "validate" ->
         IF s.script = "generated" THEN ValidateUrl(s) ELSE SkipWhenEmpty(s)
    [] s.pc = "spaceid" -> ExtractSpaceId(s)
    [] s.pc = "download" -> DownloadAndConvert(s)
    [] s.pc = "verify" -> VerifyOutput(s)
    [] s.pc = "metadata" ->
         IF s.script = "generated" THEN ExtractMetadata(s)
         ELSE ExtractMetadataJson(s)
    [] s.pc = "youtube" -> CreateYoutubeMetadata(s)
    [] s.pc = "outputs" ->
         IF s.script = "generated" THEN SetOutputs(s)
         ELSE SetExtendedOutputs(s)

RECURSIVE RunScript(_)
\* bash ./scripts/ingest.sh, from its first line to its exit.
RunScript(s) == IF s.pc = "exited" THEN s ELSE RunScript(ScriptSection(s))

\* A process about to run a script: the shell variables are empty, nothing
\* was echoed or written, and the work directory does not exist.
ShStart(script, manual, output, queue, net) ==
  [pc |-> "input", script |-> script, MANUAL_URL |-> manual,
   GITHUB_OUTPUT |-> output, queue |-> queue, net |-> net,
   TARGET_URL |-> "", SPACE_ID |-> "", DATE |-> "", MP3_FILE |-> "",
   JSON_FILE |-> "", SPACE_TITLE |-> "", UPLOADER |-> "",
   UPLOADER_ID |-> "", DESCRIPTION |-> "", DURATION |-> "",
   VIEW_COUNT |-> "", RELEASE_DATE |-> "", CATEGORIES |-> "",
   DURATION_FMT |-> "", YOUTUBE_META_FILE |-> "", RELEASE_TAG |-> "",
   workDir |-> {}, youtubeMeta |-> << >>, stdout |-> << >>,
   stderr |-> << >>, written |-> << >>, status |-> 0,
   queueRead |-> FALSE, invoked |-> FALSE]

SampleUrl == "https://x.com/i/spaces/1vOxwMdLrYqJB"

QueuedUrl == "https://x.com/i/spaces/1OdKrXWqgPwJX"

\* The values of MANUAL_URL: unset, empty, and a URL.
ManualUrls == {EnvUnset, EnvSet(""), EnvSet(SampleUrl)}

\* The values of GITHUB_OUTPUT: unset, empty, and the runner's file.
OutputFiles == {EnvUnset, EnvSet(""), EnvSet("/home/runner/_temp/output")}

\* space_queue.txt: missing, empty as generated, one empty line as the
\* workflow leaves it, blank lines only, a URL, and a URL between blanks.
QueueFiles ==
  { [exists |-> FALSE, lines |-> << >>],
    [exists |-> TRUE, lines |-> << >>],
    [exists |-> TRUE, lines |-> << "" >>],
    [exists |-> TRUE, lines |-> << " ", "\t" >>],
    [exists |-> TRUE, lines |-> << QueuedUrl >>],
    [exists |-> TRUE, lines |-> << "", "  " \o QueuedUrl \o " ", SampleUrl >>] }

\* The metadata the downloader writes with --write-info-json.
Infos ==
  { [title |-> "Weekly Space", uploader |-> "Host", uploader_id |-> "host",
     description |-> "Talk", duration |-> 3725, view_count |-> 12,
     release_date |-> "", upload_date |-> "20240115", categories |-> ""],
    [title |-> "_", duration |-> 59] }

\* What the network and the clock give one run: the outcome of the
\* download, the names yt-dlp derives, the date and the time.
Nets(script) ==
  { [outcome |-> o, info |-> i, upload_date |-> "20240115",
     id |-> "1vOxwMdLrYqJB", title |-> "Weekly_Space",
     today |-> "20240116", now |-> "1705400000"] :
      o \in IF script = "generated" THEN {"error", "none", "mp3"}
            ELSE {"error", "none", "mp3", "mp3+json"},
      i \in IF script = "generated" THEN {[title |-> "_", duration |-> 59]}
            ELSE Infos }

ScriptInit ==
  /\ UIInit
  /\ GenIdle
  /\ wf = WfIdle
  /\ runs = << >>
  /\ \E script \in {"generated", "extended"} :
       \E manual \in ManualUrls, output \in OutputFiles,
          queue \in QueueFiles, net \in Nets(script) :
         sh = ShStart(script, manual, output, queue, net)

Section1 ==
  /\ sh.pc = "input"
  /\ sh' = DetermineInputSource(sh)
  /\ UNCHANGED <<uiVars, genVars, wf, runs>>

Section2 ==
  /\ sh.pc = "validate"
  /\ sh' = IF sh.script = "generated" THEN ValidateUrl(sh)
           ELSE SkipWhenEmpty(sh)
  /\ UNCHANGED <<uiVars, genVars, wf, runs>>

SpaceIdSection ==
  /\ sh.pc = "spaceid"
  /\ sh' = ExtractSpaceId(sh)
  /\ UNCHANGED <<uiVars, genVars, wf, runs>>

DownloadSection ==
  /\ sh.pc = "download"
  /\ sh' = DownloadAndConvert(sh)
  /\ UNCHANGED <<uiVars, genVars, wf, runs>>

VerifySection ==
  /\ sh.pc = "verify"
  /\ sh' = VerifyOutput(sh)
  /\ UNCHANGED <<uiVars, genVars, wf, runs>>

MetadataSection ==
  /\ sh.pc = "metadata"
  /\ sh' = IF sh.script = "generated" THEN ExtractMetadata(sh)
           ELSE ExtractMetadataJson(sh)
  /\ UNCHANGED <<uiVars, genVars, wf, runs>>

YoutubeSection ==
  /\ sh.pc = "youtube"
  /\ sh' = CreateYoutubeMetadata(sh)
  /\ UNCHANGED <<uiVars, genVars, wf, runs>>

OutputsSection ==
  /\ sh.pc = "outputs"
  /\ sh' = IF sh.script = "generated" THEN SetOutputs(sh)
           ELSE SetExtendedOutputs(sh)
  /\ UNCHANGED <<uiVars, genVars, wf, runs>>

ScriptNext ==
  \/ Section1
  \/ Section2
  \/ SpaceIdSection
  \/ DownloadSection
  \/ VerifySection
  \/ MetadataSection
  \/ YoutubeSection
  \/ OutputsSection

ScriptSpec == ScriptInit /\ [][ScriptNext]_vars

(***************************************************************************)
(* Properties of a run of an ingest script.                                *)
(***************************************************************************)
\* A manual override: MANUAL_URL is set and not empty.
ManualOverride(s) == s.MANUAL_URL.set /\ s.MANUAL_URL.val # ""

\* A file for the outputs: GITHUB_OUTPUT is set and not empty.
OutputAvailable(s) == s.GITHUB_OUTPUT.set /\ s.GITHUB_OUTPUT.val # ""

\* The first line of the queue file that is not blank, without its
\* whitespace; the empty string when there is none.
QueueLocator(queue) ==
  LET nonBlank == {i \in 1..Len(queue.lines) : ~IsBlankLine(queue.lines[i])}
  IN IF nonBlank = {} THEN ""
     ELSE RemoveSpace(queue.lines[CHOOSE i \in nonBlank :
                                    \A j \in nonBlank : i <= j])

HasErrorMarker(s) ==
  \E i \in 1..Len(s.stdout) : StartsWith(s.stdout[i], "::error::")

(***************************************************************************)
(* C12.  Once section 1 of the generated script is over, the target is     *)
(* MANUAL_URL and the queue file was not read when MANUAL_URL is set and   *)
(* not empty; when MANUAL_URL is unset or empty and the queue file has a   *)
(* line that is not blank, the target is the first such line without its   *)
(* whitespace.                                                             *)
(***************************************************************************)
C12_LocatorPriority ==
  (sh.pc \notin {"none", "input"} /\ sh.script = "generated") =>
    /\ ManualOverride(sh) =>
         (sh.TARGET_URL = sh.MANUAL_URL.val /\ ~sh.queueRead)
    /\ (~ManualOverride(sh) /\ sh.queue.exists
          /\ QueueLocator(sh.queue) # "") =>
         (sh.queueRead /\ sh.TARGET_URL = QueueLocator(sh.queue))

(***************************************************************************)
(* C13.  The generated script, run without a manual override, ends with a  *)
(* status other than 0, an ::error:: line on its output and no call of the *)
(* downloader, both when the queue file does not exist and when the queue  *)
(* file has no line that is not blank.                                     *)
(***************************************************************************)
C13_FailureMarkers ==
  (sh.pc = "exited" /\ sh.script = "generated" /\ ~ManualOverride(sh)
     /\ (~sh.queue.exists \/ QueueLocator(sh.queue) = "")) =>
    (sh.status # 0 /\ HasErrorMarker(sh) /\ ~sh.invoked)

(***************************************************************************)
(* C14 as stated.  The extended script, run without a manual override,     *)
(* ends with a status other than 0 and an ::error:: line both when the     *)
(* queue file is missing and when the locator is empty.                    *)
(***************************************************************************)
C14_BothFail ==
  (sh.pc = "exited" /\ sh.script = "extended" /\ ~ManualOverride(sh)
     /\ (~sh.queue.exists \/ QueueLocator(sh.queue) = "")) =>
    (sh.status # 0 /\ HasErrorMarker(sh))

(***************************************************************************)
(* C14.  The extended script, run without a manual override, ends with     *)
(* status 1 and the line ::error::Queue file space_queue.txt not found!    *)
(* when the queue file is missing.  When the queue file has no line that   *)
(* is not blank it ends with status 0: it prints Queue is empty. Nothing   *)
(* to process. and no ::error:: line, and appends skipped=true, and        *)
(* nothing else, to the output file when there is one.  The downloader is  *)
(* called in neither case.                                                 *)
(***************************************************************************)
C14_MissingFailsEmptySkips ==
  (sh.pc = "exited" /\ sh.script = "extended" /\ ~ManualOverride(sh)) =>
    /\ ~sh.queue.exists =>
         /\ sh.status = 1
         /\ sh.stdout = << "::error::Queue file space_queue.txt not found!" >>
         /\ sh.written = << >>
         /\ ~sh.invoked
    /\ (sh.queue.exists /\ QueueLocator(sh.queue) = "") =>
         /\ sh.status = 0
         /\ sh.stdout = << "Queue is empty. Nothing to process." >>
         /\ sh.written = IF OutputAvailable(sh) THEN << "skipped=true" >>
                         ELSE << >>
         /\ ~sh.invoked

\* The extended script has ended on a queue file that holds one empty
\* line, the runner's output file at hand.
C14_Witness ==
  /\ sh.pc = "exited"
  /\ sh.script = "extended"
  /\ ~ManualOverride(sh)
  /\ sh.queue = [exists |-> TRUE, lines |-> << "" >>]
  /\ sh.queueRead
  /\ sh.written = << "skipped=true" >>

(***************************************************************************)
(* C15.  When the generated script has ended with status 0 and there is an *)
(* output file, it has appended to it the three lines mp3_path=,           *)
(* release_tag= and space_title=, with the values of its variables, and    *)
(* nothing else; and it has appended nothing in a run that ended with      *)
(* another status, nor before its end.                                     *)
(***************************************************************************)
C15_OutputsOnSuccessOnly ==
  (sh.pc # "none" /\ sh.script = "generated") =>
    /\ (sh.pc = "exited" /\ sh.status = 0 /\ OutputAvailable(sh)) =>
         /\ Len(sh.written) = 3
         /\ sh.written[1] = "mp3_path=" \o sh.MP3_FILE
         /\ sh.written[2] = "release_tag=" \o sh.RELEASE_TAG
         /\ sh.written[3] = "space_title=" \o sh.SPACE_TITLE
         /\ sh.MP3_FILE \in sh.workDir
    /\ (sh.pc # "exited" \/ sh.status # 0) => sh.written = << >>

\* The generated script has ended with status 0 after a download, and the
\* output file holds three lines.
C15_Witness ==
  /\ sh.pc = "exited"
  /\ sh.script = "generated"
  /\ sh.status = 0
  /\ OutputAvailable(sh)
  /\ sh.invoked
  /\ Len(sh.written) = 3

(***************************************************************************)
(* A run of the generated workflow.  The jobs, their needs, their steps    *)
(* and the conditions of the steps are read from the text                  *)
(* generateIngestYaml returns; the platform starts a job when the jobs it  *)
(* needs have succeeded, runs the steps of a job in order, and evaluates   *)
(* the condition of a step (success() when it has none) before it runs     *)
(* it.  Tools and services outside the repository succeed or fail.         *)
(***************************************************************************)
\* The lines of a block of text that start with prefix, without the prefix.
Values(block, prefix) ==
  LET kept == SelectSeq(block, LAMBDA l : StartsWith(l, prefix))
  IN [i \in 1..Len(kept) |-> SubSeq(kept[i], Len(prefix) + 1, Len(kept[i]))]

\* The blocks of a text: each runs from a line that starts one (heads holds
\* the positions of these lines) to the line before the next one.
Blocks(t, heads) ==
  LET End(i) == IF \E k \in heads : k > i
                THEN (CHOOSE k \in heads :
                        k > i /\ \A m \in heads : m > i => k <= m) - 1
                ELSE Len(t)
      Nth(k) == CHOOSE h \in heads : Cardinality({m \in heads : m <= h}) = k
  IN [k \in 1..Cardinality(heads) |-> SubSeq(t, Nth(k), End(Nth(k)))]

\* A workflow whose jobs need no other job.
JobNeeds_none(job) == {}

\* needs: of a job.
JobNeeds(job) ==
  LET v == Values(job, "    needs: ") IN {v[i] : i \in 1..Len(v)}

\* if: of a step; success() when it has none.
StepCondition(step) ==
  LET v == Values(step, "        if: ")
  IN IF v = << >> THEN "success()" ELSE v[1]

\* The name before the colon of a line, without its indentation.
KeyOf(line) ==
  LET l == StripIndent(line)
      colons == {i \in 1..Len(l) : SubSeq(l, i, i) = ":"}
  IN IF colons = {} THEN l
     ELSE SubSeq(l, 1, (CHOOSE i \in colons : \A j \in colons : i <= j) - 1)

\* outputs: of a job, the names it declares.
JobOutputs(job) ==
  LET at == {i \in 1..Len(job) : job[i] = "    outputs:"}
  IN IF at = {} THEN {}
     ELSE LET o == CHOOSE i \in at : TRUE
              body == {i \in (o + 1)..Len(job) :
                         \A k \in (o + 1)..i : StartsWith(job[k], "      ")}
          IN {KeyOf(job[i]) : i \in body}

RECURSIVE NameAt(_, _)
\* The dotted name that starts at position i of a line.
NameAt(line, i) ==
  IF i > Len(line) \/ SubSeq(line, i, i) \notin AlnumChars \cup {"_", "."}
  THEN ""
  ELSE SubSeq(line, i, i) \o NameAt(line, i + 1)

\* The values of the context needs a job refers to, as needs.<job>.<...>.
NeedsRead(job) ==
  UNION { {NameAt(job[i], k) :
             k \in {k \in 1..Len(job[i]) :
                      /\ k + 5 <= Len(job[i])
                      /\ SubSeq(job[i], k, k + 5) = "needs."}} :
          i \in 1..Len(job) }

\* A line that opens a job, and a line that opens a step.
IsJobLine(l) ==
  /\ Len(l) > 3
  /\ SubSeq(l, 1, 2) = "  "
  /\ SubSeq(l, 3, 3) # " "
  /\ SubSeq(l, Len(l), Len(l)) = ":"

IsStepLine(l) == StartsWith(l, StepPrefix)

\* The jobs of a workflow text: the blocks under jobs:.
JobBlocks(t) ==
  LET jobsAt == CHOOSE i \in 1..Len(t) : t[i] = "jobs:"
      rest == SubSeq(t, jobsAt + 1, Len(t))
  IN Blocks(rest, {i \in 1..Len(rest) : IsJobLine(rest[i])})

\* The workflow a text describes: for each job its needs, its steps with
\* their conditions and ids, the outputs it declares, and the values of
\* other jobs it reads.
ParseWorkflow(t) ==
  LET jobs == JobBlocks(t)
      Step(b) == [name |-> SubSeq(b[1], Len(StepPrefix) + 1, Len(b[1])),
                  cond |-> StepCondition(b),
                  id |-> LET v == Values(b, "        id: ")
                         IN IF v = << >> THEN "" ELSE v[1]]
      Job(b) == LET steps == Blocks(b, {i \in 1..Len(b) : IsStepLine(b[i])})
                IN [needs |-> JobNeeds(b),
                    steps |-> [i \in 1..Len(steps) |-> Step(steps[i])],
                    outputs |-> JobOutputs(b),
                    reads |-> NeedsRead(b)]
  IN [j \in {KeyOf(jobs[i][1]) : i \in 1..Len(jobs)} |->
        Job(jobs[CHOOSE i \in 1..Len(jobs) : KeyOf(jobs[i][1]) = j])]

\* if: of a step, for a job in which a step has failed or none has, and the
\* input space_url of the run (empty for a run that has none).
EvalCondition(cond, failed, space_url) ==
  CASE cond = "success()" -> ~failed
    [] cond = "success() && inputs.space_url == ''" ->
         ~failed /\ space_url = ""

\* The value a step has given the output key: the text after key= on the
\* last such line it appended to GITHUB_OUTPUT, or the empty string.
OutputOf(lines, key) ==
  LET v == Values(lines, key \o "=")
  IN IF v = << >> THEN "" ELSE v[Len(v)]

RECURSIVE Interpolate(_, _, _, _)
\* A line in which every expression between open and close that has a value
\* in vals is replaced by that value.
Interpolate(line, open, close, vals) ==
  LET opens == {i \in 1..(Len(line) - Len(open) + 1) :
                  SubSeq(line, i, i + Len(open) - 1) = open}
  IN IF opens = {} THEN line
     ELSE LET a == CHOOSE i \in opens : \A j \in opens : i <= j
              closes == {i \in (a + Len(open))..(Len(line) - Len(close) + 1) :
                           SubSeq(line, i, i + Len(close) - 1) = close}
          IN IF closes = {} THEN line
             ELSE LET b == CHOOSE i \in closes : \A j \in closes : i <= j
                      e == SubSeq(line, a + Len(open), b - 1)
                  IN SubSeq(line, 1, a - 1)
                       \o (IF e \in DOMAIN vals THEN vals[e]
                           ELSE open \o e \o close)
                       \o Interpolate(SubSeq(line, b + Len(close), Len(line)),
                                      open, close, vals)

\* awk '{printf "%02d:%02d:%02d", ($1/3600), ($1%3600/60), ($1%60)}' for a
\* whole number of seconds.
AwkFormatDuration(d) ==
  Pad2(d \div 3600) \o ":" \o Pad2((d % 3600) \div 60) \o ":" \o Pad2(d % 60)

\* The lines of a block scalar: the lines after the line head that are
\* indented by indent at least, without that indentation.
BlockScalar(step, head, indent) ==
  LET at == CHOOSE i \in 1..Len(step) : step[i] = head
      body == {i \in (at + 1)..Len(step) :
                 \A k \in (at + 1)..i :
                   StartsWith(step[k], indent) \/ StripIndent(step[k]) = ""}
  IN [i \in 1..Cardinality(body) |->
        IF Len(step[at + i]) < Len(indent) THEN ""
        ELSE SubSeq(step[at + i], Len(indent) + 1, Len(step[at + i]))]

\* The lines of the step called name of a job in the workflow text t.
StepText(t, job, name) ==
  LET jobs == JobBlocks(t)
      mine == jobs[CHOOSE i \in 1..Len(jobs) : KeyOf(jobs[i][1]) = job]
      steps == Blocks(mine, {i \in 1..Len(mine) : IsStepLine(mine[i])})
  IN steps[CHOOSE i \in 1..Len(steps) : steps[i][1] = StepPrefix \o name]

\* The values of the expressions ${{ ... }} of the steps of the job
\* ingest: the outputs of the steps process and duration, and the input.
StepsContext(w) ==
  [e \in {"steps.process.outputs.mp3_path",
          "steps.process.outputs.release_tag",
          "steps.process.outputs.space_title",
          "steps.duration.outputs.duration",
          "inputs.space_url"} |->
     CASE StartsWith(e, "steps.process.outputs.") ->
            OutputOf(w.outputs.process,
                     SubSeq(e, Len("steps.process.outputs.") + 1, Len(e)))
       [] StartsWith(e, "steps.duration.outputs.") ->
            OutputOf(w.outputs.duration,
                     SubSeq(e, Len("steps.duration.outputs.") + 1, Len(e)))
       [] OTHER -> w.space_url]

\* with: body: of the step Create Release, its expressions evaluated.
ReleaseBody(w) ==
  LET step == StepText(generateIngestYaml(w.cfg), "ingest", "Create Release")
      body == BlockScalar(step, "          body: |", "            ")
  IN [i \in 1..Len(body) |->
        Interpolate(body[i], "${{ ", " }}", StepsContext(w))]

\* The value of a key of with: or env: of a step, evaluated, without the
\* double quotes around it.
StepValue(w, step, key) ==
  LET v == Values(step, key)
      value == Interpolate(v[1], "${{ ", " }}", StepsContext(w))
  IN IF Len(value) >= 2 /\ SubSeq(value, 1, 1) = "\""
        /\ SubSeq(value, Len(value), Len(value)) = "\""
     THEN SubSeq(value, 2, Len(value) - 1)
     ELSE value

RECURSIVE XmlEscape(_)
\* xml.sax.saxutils.escape
XmlEscape(s) ==
  IF s = "" THEN ""
  ELSE LET c == SubSeq(s, 1, 1)
       IN (CASE c = "&" -> "&amp;"
             [] c = "<" -> "&lt;"
             [] c = ">" -> "&gt;"
             [] OTHER -> c) \o XmlEscape(SubSeq(s, 2, Len(s)))

\* re.search(r'METADATA::DURATION::(\d{2}:\d{2}:\d{2})', body): the first
\* match in the body of a release, or "00:00:00".
DurationOf(body) ==
  LET mark == "METADATA::DURATION::"
      digits == {DigitChars[i] : i \in 1..Len(DigitChars)}
      IsClock(s) == /\ Len(s) = 8
                    /\ \A i \in {1, 2, 4, 5, 7, 8} : SubSeq(s, i, i) \in digits
                    /\ \A i \in {3, 6} : SubSeq(s, i, i) = ":"
      Clock(l, k) == SubSeq(l, k + Len(mark), k + Len(mark) + 7)
      found == UNION { {<<i, k>> : k \in {k \in 1..Len(body[i]) :
                          /\ k + Len(mark) + 7 <= Len(body[i])
                          /\ SubSeq(body[i], k, k + Len(mark) - 1) = mark
                          /\ IsClock(Clock(body[i], k))}} :
                       i \in 1..Len(body) }
  IN IF found = {} THEN "00:00:00"
     ELSE LET p == CHOOSE q \in found :
                     \A r \in found :
                       q[1] < r[1] \/ (q[1] = r[1] /\ q[2] <= r[2])
          IN Clock(body[p[1]], p[2])

\* The indentation of the lines of run: | in a step.
RunIndent == "          "

\* The index of the first occurrence of part in s, or 0.
IndexOf(s, part) ==
  LET at == {i \in 1..(Len(s) - Len(part) + 1) :
               SubSeq(s, i, i + Len(part) - 1) = part}
  IN IF at = {} THEN 0 ELSE CHOOSE i \in at : \A j \in at : i <= j

\* The text of the f-string that head opens in generate_rss.py, as lines:
\* from the text after head to the text before the closing quotes, the
\* lines between them without the indentation of the block scalar.
FString(step, head) ==
  LET quotes == "\"\"\""
      a == CHOOSE i \in 1..Len(step) : IndexOf(step[i], head) > 0
      b == CHOOSE i \in (a + 1)..Len(step) :
             /\ IndexOf(step[i], quotes) > 0
             /\ \A k \in (a + 1)..(i - 1) : IndexOf(step[k], quotes) = 0
      Line(i) == IF StartsWith(step[i], RunIndent)
                 THEN SubSeq(step[i], Len(RunIndent) + 1, Len(step[i]))
                 ELSE ""
  IN [i \in 1..(b - a + 1) |->
        IF i = 1
        THEN SubSeq(step[a], IndexOf(step[a], head) + Len(head), Len(step[a]))
        ELSE IF i = b - a + 1
             THEN SubSeq(Line(b), 1, IndexOf(Line(b), quotes) - 1)
        ELSE Line(a + i - 1)]

RECURSIVE Flatten(_)
Flatten(texts) ==
  IF texts = << >> THEN << >> ELSE texts[1] \o Flatten(Tail(texts))

RECURSIVE JoinTexts(_)
\* The concatenation of texts given as lines: the last line of a text goes
\* on with the first line of the next.
JoinTexts(texts) ==
  IF Len(texts) = 1 THEN texts[1]
  ELSE LET a == texts[1]
           b == JoinTexts(Tail(texts))
       IN SubSeq(a, 1, Len(a) - 1) \o <<a[Len(a)] \o b[1]>> \o Tail(b)

\* A script that writes an Atom feed.
RssContent_atom(w, releases) ==
  << "<?xml version=\"1.0\" encoding=\"UTF-8\"?>",
     "<feed xmlns=\"http://www.w3.org/2005/Atom\">",
     "</feed>" >>

\* podcast.xml as generate_rss.py writes it for the releases it fetched:
\* the f-string rss_content, with one item for every MP3 asset of every
\* release that is neither a draft nor a prerelease.
RssContent(w, releases) ==
  LET step == StepText(generateIngestYaml(w.cfg), "rss", "Generate RSS Feed")
      Env(key) == StepValue(w, step, RunIndent \o key \o ": ")
      repo == w.repository
      slash == IndexOf(repo, "/")
      github_pages_url == "https://" \o SubSeq(repo, 1, slash - 1)
                            \o ".github.io/"
                            \o SubSeq(repo, slash + 1, Len(repo)) \o "/"
      image == IF w.artwork THEN github_pages_url \o "artwork.jpg"
               ELSE Env("PODCAST_IMAGE")
      channel ==
        [e \in {"escape(title)", "escape(desc)", "escape(author)",
                "escape(email)", "github_pages_url", "rss_url", "image",
                "last_build_date"} |->
           CASE e = "escape(title)" -> XmlEscape(Env("PODCAST_TITLE"))
             [] e = "escape(desc)" -> XmlEscape(Env("PODCAST_DESC"))
             [] e = "escape(author)" -> XmlEscape(Env("PODCAST_AUTHOR"))
             [] e = "escape(email)" -> XmlEscape(Env("PODCAST_EMAIL"))
             [] e = "github_pages_url" -> github_pages_url
             [] e = "rss_url" -> github_pages_url \o "podcast.xml"
             [] e = "image" -> image
             [] e = "last_build_date" -> w.clock]
      Item(release, asset) ==
        LET vals ==
              [e \in {"item_title", "rfc822_date", "file_url", "file_size",
                      "guid", "duration"} |->
                 CASE e = "item_title" -> XmlEscape(release.name)
                   [] e = "rfc822_date" -> release.published
                   [] e = "file_url" -> asset.url
                   [] e = "file_size" -> asset.size
                   [] e = "guid" -> asset.id
                   [] e = "duration" -> DurationOf(release.body)]
            text == FString(step, "rss_items.append(f\"\"\"")
        IN [i \in 1..Len(text) |-> Interpolate(text[i], "{", "}", vals)]
      ItemsOf(release) ==
        IF release.draft \/ release.prerelease THEN << >>
        ELSE LET mp3 == SelectSeq(release.assets,
                                  LAMBDA a : EndsWith(a.name, ".mp3"))
             IN [i \in 1..Len(mp3) |-> Item(release, mp3[i])]
      items == Flatten([i \in 1..Len(releases) |-> ItemsOf(releases[i])])
      \* The line of the template that holds ''.join(rss_items).
      Joined(line) ==
        LET k == IndexOf(line, "{''.join(rss_items)}")
            before == SubSeq(line, 1, k - 1)
            after == SubSeq(line, k + Len("{''.join(rss_items)}"), Len(line))
        IN JoinTexts(<< <<before>> >> \o items \o << <<after>> >>)
      template == FString(step, "rss_content = f\"\"\"")
  IN Flatten([i \in 1..Len(template) |->
                IF IndexOf(template[i], "{''.join(rss_items)}") > 0
                THEN Joined(template[i])
                ELSE <<Interpolate(template[i], "{", "}", channel)>>])

\* grep -q pattern file, the pattern taken from the line of the step
\* Validate RSS that calls grep.
ValidateRssPasses(w) ==
  LET step == StepText(generateIngestYaml(w.cfg), "rss", "Validate RSS")
      call == step[CHOOSE i \in 1..Len(step) :
                     IndexOf(step[i], "grep -q '") > 0]
      from == IndexOf(call, "grep -q '") + Len("grep -q '")
      rest == SubSeq(call, from, Len(call))
      pattern == SubSeq(rest, 1, IndexOf(rest, "'") - 1)
  IN /\ w.podcast.exists
     /\ \E i \in 1..Len(w.podcast.lines) : Contains(w.podcast.lines[i], pattern)

\* A run as the platform creates it: every job waits, nothing was checked
\* out, no step has set an output.  queue, podcast and releases are what
\* the repository holds when the run is triggered.
StartRun(cfg, script, event, space_url, queue, podcast, releases, artwork) ==
  LET jobs == ParseWorkflow(generateIngestYaml(cfg))
  IN [pc |-> "running", cfg |-> cfg, script |-> script, event |-> event,
      space_url |-> space_url, jobs |-> jobs,
      job |-> [j \in DOMAIN jobs |->
                 [status |-> "waiting", next |-> 1, results |-> << >>]],
      repository |-> "octocat/spaces-archive",
      queue0 |-> queue, repoQueue |-> queue, repoPodcast |-> podcast,
      artwork |-> artwork, clock |-> "Tue, 16 Jan 2024 10:00:00 GMT",
      workQueue |-> [exists |-> FALSE, lines |-> << >>],
      podcast |-> [exists |-> FALSE, lines |-> << >>],
      outputs |-> [process |-> << >>, duration |-> << >>],
      releases |-> releases,
      artifact |-> [exists |-> FALSE, lines |-> << >>],
      pages |-> [exists |-> FALSE, lines |-> << >>],
      cleared |-> FALSE, faults |-> FALSE]

\* A job that has concluded.
Concluded(w, j) == w.job[j].status \in {"success", "failure", "skipped"}

\* The platform starts a job whose needed jobs have all succeeded.
StartJob(j) ==
  /\ wf.pc = "running"
  /\ j \in DOMAIN wf.jobs
  /\ wf.job[j].status = "waiting"
  /\ \A n \in wf.jobs[j].needs : wf.job[n].status = "success"
  /\ wf' = [wf EXCEPT !.job[j].status = "running"]
  /\ UNCHANGED <<uiVars, genVars, sh, runs>>

\* The platform skips a job when a job it needs has not succeeded.
SkipJob(j) ==
  /\ wf.pc = "running"
  /\ j \in DOMAIN wf.jobs
  /\ wf.job[j].status = "waiting"
  /\ \E n \in wf.jobs[j].needs : wf.job[n].status \in {"failure", "skipped"}
  /\ wf' = [wf EXCEPT !.job[j].status = "skipped"]
  /\ UNCHANGED <<uiVars, genVars, sh, runs>>

\* The job j is at its step called name.
AtStep(j, name) ==
  /\ wf.pc = "running"
  /\ j \in DOMAIN wf.jobs
  /\ wf.job[j].status = "running"
  /\ wf.job[j].next <= Len(wf.jobs[j].steps)
  /\ wf.jobs[j].steps[wf.job[j].next].name = name

\* The condition of the step the job j is at holds.
ConditionHolds(j) ==
  EvalCondition(wf.jobs[j].steps[wf.job[j].next].cond,
                \E i \in 1..Len(wf.job[j].results) :
                  wf.job[j].results[i] = "failure",
                wf.space_url)

\* The run w with the result of the step the job j was at; the job
\* concludes after its last step, with failure when a step has failed.
Advance(w, j, result) ==
  LET results == Append(w.job[j].results, result)
      last == w.job[j].next = Len(w.jobs[j].steps)
      failed == \E i \in 1..Len(results) : results[i] = "failure"
  IN [w EXCEPT !.job[j] =
        [status |-> IF ~last THEN "running"
                    ELSE IF failed THEN "failure" ELSE "success",
         next |-> w.job[j].next + 1,
         results |-> results]]

\* A tool or a service outside the repository has failed in the run.
Fault(w) == [w EXCEPT !.faults = TRUE]

\* The result of a step that only uses a tool or a service outside the
\* repository, which succeeds or fails.
External(j, ok) ==
  IF ~ConditionHolds(j) THEN Advance(wf, j, "skipped")
  ELSE IF ok THEN Advance(wf, j, "success")
  ELSE Advance(Fault(wf), j, "failure")

\* actions/checkout: the job gets the files of the repository.
Checkout(j) ==
  /\ AtStep(j, "Checkout")
  /\ \E ok \in BOOLEAN :
       wf' = IF ConditionHolds(j) /\ ok
             THEN Advance([wf EXCEPT !.workQueue =
                                       IF j = "ingest" THEN wf.repoQueue
                                       ELSE @,
                                     !.podcast =
                                       IF j = "rss" THEN wf.repoPodcast
                                       ELSE @],
                          j, "success")
             ELSE External(j, ok)
  /\ UNCHANGED <<uiVars, genVars, sh, runs>>

\* The steps Install ffmpeg, Set up Python and Install yt-dlp.
Install(name) ==
  /\ AtStep("ingest", name)
  /\ \E ok \in BOOLEAN : wf' = External("ingest", ok)
  /\ UNCHANGED <<uiVars, genVars, sh, runs>>

\* The step Run Ingest Script: bash ./scripts/ingest.sh with MANUAL_URL the
\* input of the run, which is empty when the run has none.  The file at
\* scripts/ingest.sh is the one the repository of the run holds: the
\* generated script, or the script of src/scripts/ingest.sh.  The step
\* succeeds when the script ends with status 0, and its outputs are the
\* lines the script appended to GITHUB_OUTPUT.
RunIngestScript ==
  /\ AtStep("ingest", "Run Ingest Script")
  /\ IF ~ConditionHolds("ingest")
     THEN wf' = Advance(wf, "ingest", "skipped") /\ sh' = sh
     ELSE \E net \in Nets(wf.script) :
            LET run == RunScript(ShStart(wf.script, EnvSet(wf.space_url),
                                         EnvSet("/home/runner/_temp/output"),
                                         wf.workQueue, net))
                w == [wf EXCEPT !.outputs.process = run.written,
                                !.faults =
                                  @ \/ (run.invoked
                                         /\ net.outcome \in {"error", "none"})]
            IN /\ sh' = run
               /\ wf' = Advance(w, "ingest",
                                IF run.status = 0 THEN "success"
                                ELSE "failure")
  /\ UNCHANGED <<uiVars, genVars, runs>>

\* What ffprobe reports for the MP3 file: a number of seconds, or an error
\* and nothing on its output.
Probes ==
  { [ok |-> FALSE, seconds |-> 0], [ok |-> TRUE, seconds |-> 59],
    [ok |-> TRUE, seconds |-> 3725] }

\* The step Extract MP3 Duration.  The shell of a run: step is bash -e
\* without pipefail, so the status of the pipeline is that of awk, and the
\* step sets duration to the empty string when ffprobe fails.
ExtractMp3Duration ==
  /\ AtStep("ingest", "Extract MP3 Duration")
  /\ \E probe \in Probes :
       wf' = IF ~ConditionHolds("ingest")
             THEN Advance(wf, "ingest", "skipped")
             ELSE LET DURATION == IF probe.ok
                                  THEN AwkFormatDuration(probe.seconds)
                                  ELSE ""
                  IN Advance([wf EXCEPT
                                !.outputs.duration =
                                  << "duration=" \o DURATION >>,
                                !.faults = @ \/ ~probe.ok],
                             "ingest", "success")
  /\ UNCHANGED <<uiVars, genVars, sh, runs>>

\* The step Clear Queue File: the file is overwritten with one empty line
\* and the change is committed and pushed; the step fails when the push
\* does.
ClearQueueFile ==
  /\ AtStep("ingest", "Clear Queue File")
  /\ \E pushed \in BOOLEAN :
       wf' = IF ~ConditionHolds("ingest")
             THEN Advance(wf, "ingest", "skipped")
             ELSE LET empty == [exists |-> TRUE, lines |-> << "" >>]
                      w == [wf EXCEPT !.workQueue = empty]
                  IN IF pushed
                     THEN Advance([w EXCEPT !.repoQueue = empty,
                                            !.cleared = TRUE],
                                  "ingest", "success")
                     ELSE Advance(Fault(w), "ingest", "failure")
  /\ UNCHANGED <<uiVars, genVars, sh, runs>>

\* The step Create Release: a release with the tag, the name, the file and
\* the body the step gives.  Without a tag name the action takes the tag of
\* the ref of the run, and fails for a run on a branch, as every run of
\* this workflow is.
CreateRelease ==
  /\ AtStep("ingest", "Create Release")
  /\ \E ok \in BOOLEAN :
       LET step == StepText(generateIngestYaml(wf.cfg), "ingest",
                            "Create Release")
           tag == StepValue(wf, step, RunIndent \o "tag_name: ")
           file == StepValue(wf, step, RunIndent \o "files: ")
           release ==
             [tag |-> tag,
              name |-> StepValue(wf, step, RunIndent \o "name: "),
              body |-> ReleaseBody(wf),
              published |-> wf.clock,
              draft |-> FALSE, prerelease |-> FALSE,
              assets |->
                << [name |-> Basename(file, ""),
                    url |-> "https://github.com/" \o wf.repository
                              \o "/releases/download/" \o tag
                              \o "/" \o Basename(file, ""),
                    size |-> "1048576", id |-> "1001"] >>]
       IN wf' = IF ~ConditionHolds("ingest") \/ ~ok
                THEN External("ingest", ok)
                ELSE IF tag = "" THEN Advance(wf, "ingest", "failure")
                ELSE Advance([wf EXCEPT !.releases = <<release>> \o @],
                             "ingest", "success")
  /\ UNCHANGED <<uiVars, genVars, sh, runs>>

\* The step Generate RSS Feed: generate_rss.py ends with status 1 when it
\* cannot fetch the releases, and writes podcast.xml otherwise.
GenerateRssFeed ==
  /\ AtStep("rss", "Generate RSS Feed")
  /\ \E fetched \in BOOLEAN :
       wf' = IF ConditionHolds("rss") /\ fetched
             THEN Advance([wf EXCEPT
                             !.podcast =
                               [exists |-> TRUE,
                                lines |-> RssContent(wf, wf.releases)]],
                          "rss", "success")
             ELSE External("rss", fetched)
  /\ UNCHANGED <<uiVars, genVars, sh, runs>>

\* The step Validate RSS: exit 1 unless grep finds the pattern.
ValidateRss ==
  /\ AtStep("rss", "Validate RSS")
  /\ wf' = IF ~ConditionHolds("rss") THEN Advance(wf, "rss", "skipped")
           ELSE Advance(wf, "rss", IF ValidateRssPasses(wf) THEN "success"
                                   ELSE "failure")
  /\ UNCHANGED <<uiVars, genVars, sh, runs>>

\* The step Upload Pages Artifact, with path: . for the files of the job.
UploadPagesArtifact ==
  /\ AtStep("rss", "Upload Pages Artifact")
  /\ \E ok \in BOOLEAN :
       wf' = IF ConditionHolds("rss") /\ ok
             THEN Advance([wf EXCEPT !.artifact = wf.podcast], "rss",
                          "success")
             ELSE External("rss", ok)
  /\ UNCHANGED <<uiVars, genVars, sh, runs>>

\* The step Deploy to GitHub Pages.
DeployToGitHubPages ==
  /\ AtStep("rss", "Deploy to GitHub Pages")
  /\ \E ok \in BOOLEAN :
       wf' = IF ConditionHolds("rss") /\ ok
             THEN Advance([wf EXCEPT !.pages = wf.artifact], "rss", "success")
             ELSE External("rss", ok)
  /\ UNCHANGED <<uiVars, genVars, sh, runs>>

\* The events that trigger the workflow: a push that changes
\* space_queue.txt, and a manual dispatch without or with the input.
Triggers ==
  { [event |-> "push", space_url |-> ""],
    [event |-> "workflow_dispatch", space_url |-> ""],
    [event |-> "workflow_dispatch", space_url |-> SampleUrl] }

\* podcast.xml in the repository: none, or a file of another kind.
RepoPodcasts ==
  { [exists |-> FALSE, lines |-> << >>],
    [exists |-> TRUE, lines |-> << "<html></html>" >>] }

\* The releases of the repository before the run: none, or an earlier one.
EarlierReleases ==
  { << >>,
    << [tag |-> "20240101_1700000000", name |-> "Q&A <live>",
        body |-> << "METADATA::DURATION::00:10:05" >>,
        published |-> "Mon, 01 Jan 2024 10:00:00 GMT",
        draft |-> FALSE, prerelease |-> FALSE,
        assets |-> << [name |-> "20240101_old.mp3",
                       url |-> "https://example.invalid/20240101_old.mp3",
                       size |-> "2048", id |-> "1000"] >>] >> }

WorkflowInit ==
  /\ UIInit
  /\ GenIdle
  /\ sh = ShIdle
  /\ runs = << >>
  /\ \E cfg \in {DefaultConfigLiteral, ScenarioConfig} :
       \E script \in {"generated", "extended"}, trigger \in Triggers,
          queue \in QueueFiles, podcast \in RepoPodcasts,
          releases \in EarlierReleases :
         wf = StartRun(cfg, script, trigger.event, trigger.space_url, queue,
                       podcast, releases, FALSE)

WorkflowNext ==
  \/ \E j \in {"ingest", "rss"} : StartJob(j)
  \/ \E j \in {"ingest", "rss"} : SkipJob(j)
  \/ \E j \in {"ingest", "rss"} : Checkout(j)
  \/ \E name \in {"Install ffmpeg", "Set up Python", "Install yt-dlp"} :
       Install(name)
  \/ RunIngestScript
  \/ ExtractMp3Duration
  \/ ClearQueueFile
  \/ CreateRelease
  \/ GenerateRssFeed
  \/ ValidateRss
  \/ UploadPagesArtifact
  \/ DeployToGitHubPages

WorkflowSpec == WorkflowInit /\ [][WorkflowNext]_vars

(***************************************************************************)
(* Several runs of the generated workflow.  The platform puts the runs of  *)
(* one concurrency group in line: a run triggered while another run of its *)
(* group is in progress or pending becomes pending, and replaces the run   *)
(* of the group that was pending; with cancel-in-progress: true it cancels *)
(* the run in progress instead.  A run is a record of its ref, its status  *)
(* and the number of its jobs that have concluded.                         *)
(***************************************************************************)
MaxRuns == 3

Refs == {"refs/heads/main", "refs/heads/dev"}

\* A workflow that cancels the run in progress.
Concurrency_cancelling(t) ==
  LET block == BlockScalar(t, "concurrency:", "  ")
  IN [group |-> Values(block, "group: ")[1], cancel |-> TRUE]

\* concurrency: of a workflow text, its group and cancel-in-progress.
Concurrency(t) ==
  LET block == BlockScalar(t, "concurrency:", "  ")
  IN [group |-> Values(block, "group: ")[1],
      cancel |-> Values(block, "cancel-in-progress: ")[1] = "true"]

\* The workflow file of the repository, with the default configuration.
DeployedWorkflow == generateIngestYaml(DefaultConfigLiteral)

DeployedConcurrency == Concurrency(DeployedWorkflow)

DeployedJobs == Cardinality(DOMAIN ParseWorkflow(DeployedWorkflow))

\* The concurrency group of a run for a ref.
GroupOf(ref) ==
  Interpolate(DeployedConcurrency.group, "${{ ", " }}",
              [e \in {"github.workflow", "github.ref"} |->
                 IF e = "github.ref" THEN ref
                 ELSE Values(DeployedWorkflow, "name: ")[1]])

\* The runs of the group of ref with one of the given statuses.
InGroup(ref, statuses) ==
  {i \in 1..Len(runs) : /\ GroupOf(runs[i].ref) = GroupOf(ref)
                        /\ runs[i].status \in statuses}

\* A push to space_queue.txt on a ref, or a manual dispatch for it.
Trigger(ref) ==
  /\ Len(runs) < MaxRuns
  /\ LET busy == InGroup(ref, {"in_progress", "pending"}) # {}
         new == [ref |-> ref, jobsDone |-> 0,
                 status |-> IF busy /\ ~DeployedConcurrency.cancel
                            THEN "pending" ELSE "in_progress"]
         replaced == IF ~busy THEN {}
                     ELSE IF DeployedConcurrency.cancel
                          THEN InGroup(ref, {"in_progress", "pending"})
                     ELSE InGroup(ref, {"pending"})
     IN runs' = Append([i \in 1..Len(runs) |->
                          IF i \in replaced
                          THEN [runs[i] EXCEPT !.status = "cancelled"]
                          ELSE runs[i]],
                       new)
  /\ UNCHANGED <<uiVars, genVars, sh, wf>>

\* The platform starts the pending run of a group no run of which is in
\* progress.
StartPending(i) ==
  /\ i \in 1..Len(runs)
  /\ runs[i].status = "pending"
  /\ InGroup(runs[i].ref, {"in_progress"}) = {}
  /\ runs' = [runs EXCEPT ![i].status = "in_progress"]
  /\ UNCHANGED <<uiVars, genVars, sh, wf>>

\* A job of a run in progress concludes; the run completes with its last.
ConcludeJob(i) ==
  /\ i \in 1..Len(runs)
  /\ runs[i].status = "in_progress"
  /\ runs' = [runs EXCEPT
                ![i].jobsDone = @ + 1,
                ![i].status = IF runs[i].jobsDone + 1 = DeployedJobs
                              THEN "completed" ELSE "in_progress"]
  /\ UNCHANGED <<uiVars, genVars, sh, wf>>

ConcInit == UIInit /\ GenIdle /\ PipeIdle

ConcNext ==
  \/ \E ref \in Refs : Trigger(ref)
  \/ \E i \in 1..Len(runs) : StartPending(i)
  \/ \E i \in 1..Len(runs) : ConcludeJob(i)

ConcSpec == ConcInit /\ [][ConcNext]_vars

(***************************************************************************)
(* The way of a duration through the pipeline: the script of               *)
(* src/scripts/ingest.sh formats the duration of the metadata, the step    *)
(* Extract MP3 Duration formats what ffprobe reports for the MP3 file, the *)
(* step Create Release writes the body of the release, and generate_rss.py *)
(* reads the duration of an item from the body of its release.             *)
(***************************************************************************)
\* Durations of a recording, in whole seconds.
Durations ==
  {0, 1, 59, 60, 61, 3599, 3600, 3725, 35999, 36000, 86399, 359999}

\* The script has run for a queued URL whose recording has the title and
\* the duration chosen; the repository holds another release, whose body
\* has no duration line.
DurationInit ==
  /\ UIInit
  /\ GenIdle
  /\ runs = << >>
  /\ \E seconds \in Durations,
        title \in {"Weekly_Space", "Q&A <live>",
                   "METADATA::DURATION::12:34:56"},
        other \in {<< >>, << "Recorded live.", "Duration 00:10:05" >>} :
       LET info == [title |-> title, duration |-> seconds]
           net == CHOOSE n \in Nets("extended") : n.outcome = "mp3+json"
       IN /\ sh = RunScript(ShStart("extended", EnvSet(""),
                                    EnvSet("/home/runner/_temp/output"),
                                    [exists |-> TRUE,
                                     lines |-> << QueuedUrl >>],
                                    [net EXCEPT !.info = info]))
          /\ wf = [pc |-> "probe", cfg |-> DefaultConfigLiteral,
                   space_url |-> "", seconds |-> seconds,
                   outputs |-> [process |-> sh.written, duration |-> << >>],
                   body |-> << >>, other |-> other,
                   duration |-> "", otherDuration |-> ""]

\* The step Extract MP3 Duration, for a file ffprobe can read.
ProbeDuration ==
  /\ wf.pc = "probe"
  /\ wf' = [wf EXCEPT !.pc = "release",
                      !.outputs.duration =
                        << "duration=" \o AwkFormatDuration(wf.seconds) >>]
  /\ UNCHANGED <<uiVars, genVars, sh, runs>>

\* The step Create Release writes the body.
WriteReleaseBody ==
  /\ wf.pc = "release"
  /\ wf' = [wf EXCEPT !.pc = "feed", !.body = ReleaseBody(wf)]
  /\ UNCHANGED <<uiVars, genVars, sh, runs>>

\* generate_rss.py takes the duration of each release from its body.
ReadDurations ==
  /\ wf.pc = "feed"
  /\ wf' = [wf EXCEPT !.pc = "done",
                      !.duration = DurationOf(wf.body),
                      !.otherDuration = DurationOf(wf.other)]
  /\ UNCHANGED <<uiVars, genVars, sh, runs>>

DurationNext ==
  \/ ProbeDuration
  \/ WriteReleaseBody
  \/ ReadDurations

DurationSpec == DurationInit /\ [][DurationNext]_vars

(***************************************************************************)
(* Properties of a run of the generated workflow.                          *)
(***************************************************************************)
\* The result of the step called name of the job j: success, failure or
\* skipped, and pending while the job has not reached the end of the step.
ResultOf(w, j, name) ==
  LET steps == w.jobs[j].steps
      i == CHOOSE k \in 1..Len(steps) : steps[k].name = name
  IN IF i <= Len(w.job[j].results) THEN w.job[j].results[i] ELSE "pending"

\* A file that holds the opening of an RSS 2.0 document.
HasRssVersion(file) ==
  /\ file.exists
  /\ \E i \in 1..Len(file.lines) :
       Contains(file.lines[i], "<rss version=\"2.0\"")

RunConcluded(w) == \A j \in DOMAIN w.jobs : Concluded(w, j)

(***************************************************************************)
(* C16.  In a run of the generated workflow the job rss depends on the job *)
(* ingest: when rss has started, or a step of rss has a result, every step *)
(* of ingest has its result and ingest has succeeded; and when ingest has  *)
(* failed, rss never starts and none of its steps runs.                    *)
(***************************************************************************)
C16_RssAfterIngest ==
  wf.pc = "running" =>
    /\ (wf.job.rss.status \in {"running", "success", "failure"}
          \/ wf.job.rss.results # << >>) =>
         /\ wf.job.ingest.status = "success"
         /\ Len(wf.job.ingest.results) = Len(wf.jobs.ingest.steps)
    /\ wf.job.ingest.status = "failure" =>
         /\ wf.job.rss.status \in {"waiting", "skipped"}
         /\ wf.job.rss.results = << >>

\* A step of rss has run after the last step of ingest.
C16_Witness ==
  /\ wf.pc = "running"
  /\ wf.job.ingest.status = "success"
  /\ wf.job.rss.status = "running"
  /\ Len(wf.job.rss.results) >= 2

C18_ValidFeed ==
  wf.pc = "running" =>
    /\ ResultOf(wf, "rss", "Generate RSS Feed") = "success" =>
         /\ HasRssVersion(wf.podcast)
         /\ ResultOf(wf, "rss", "Validate RSS") \in {"pending", "success"}
    /\ ResultOf(wf, "rss", "Deploy to GitHub Pages") \in {"success", "failure"}
         => HasRssVersion(wf.podcast)
    /\ wf.pages.exists => HasRssVersion(wf.pages)

\* A feed with two items is deployed, over a podcast.xml of another kind
\* that the repository held.
C18_Witness ==
  /\ wf.pc = "running"
  /\ wf.repoPodcast.exists
  /\ ResultOf(wf, "rss", "Validate RSS") = "success"
  /\ wf.pages.exists
  /\ Len(wf.releases) = 2

(***************************************************************************)
(* C19.  When a run has ended: if it had no space_url input, the queue     *)
(* file held a URL and no tool or service failed, the script has           *)
(* downloaded the queued URL and the queue file of the repository holds    *)
(* one empty line; if it had a space_url input, the queue file of the      *)
(* repository is as it was; and the queue file was changed only in a run   *)
(* whose steps Run Ingest Script and Extract MP3 Duration succeeded.       *)
(***************************************************************************)
C19_QueueCleared ==
  (wf.pc = "running" /\ RunConcluded(wf)) =>
    /\ (wf.space_url = "" /\ QueueLocator(wf.queue0) # "" /\ ~wf.faults) =>
         /\ sh.invoked
         /\ sh.TARGET_URL = QueueLocator(wf.queue0)
         /\ wf.repoQueue = [exists |-> TRUE, lines |-> << "" >>]
    /\ wf.space_url # "" => wf.repoQueue = wf.queue0
    /\ (wf.cleared \/ wf.repoQueue # wf.queue0) =>
         /\ ResultOf(wf, "ingest", "Run Ingest Script") = "success"
         /\ ResultOf(wf, "ingest", "Extract MP3 Duration") = "success"

(***************************************************************************)
(* C20.  With the concurrency setting of the generated workflow, no two    *)
(* runs of the workflow for the same ref are in progress at the same time, *)
(* and a run in progress is never cancelled: it stays in progress until it *)
(* completes, whatever run is triggered.                                   *)
(***************************************************************************)
C20_OneRunPerRef ==
  [][ /\ \A i, j \in 1..Len(runs') :
           (i # j /\ runs'[i].ref = runs'[j].ref)
             => ~(runs'[i].status = "in_progress"
                    /\ runs'[j].status = "in_progress")
      /\ \A i \in 1..Len(runs) :
           runs[i].status = "in_progress"
             => runs'[i].status \in {"in_progress", "completed"} ]_vars

\* A run was triggered for a ref while another run for it was in progress:
\* the first is still in progress, and the second waits.
C20_Witness ==
  /\ Len(runs) >= 2
  /\ runs[1].ref = runs[2].ref
  /\ runs[1].status = "in_progress"
  /\ runs[1].jobsDone = 1
  /\ runs[2].status = "pending"

(***************************************************************************)
(* C21.  In a run without a space_url input whose queue file held a URL:   *)
(* when the job ingest has concluded and the queue file of the repository  *)
(* is no longer as it was, the step Create Release has succeeded and the   *)
(* release holds the MP3 file the script produced for the queued URL; and  *)
(* when the step Create Release has failed, the queue file of the          *)
(* repository is as it was.                                                *)
(***************************************************************************)
C21_QueuedUrlNeverLost ==
  (wf.pc = "running" /\ wf.space_url = ""
     /\ QueueLocator(wf.queue0) # "") =>
    /\ (Concluded(wf, "ingest") /\ wf.repoQueue # wf.queue0) =>
         /\ ResultOf(wf, "ingest", "Create Release") = "success"
         /\ sh.TARGET_URL = QueueLocator(wf.queue0)
         /\ wf.releases[1].assets[1].name = Basename(sh.MP3_FILE, "")
    /\ ResultOf(wf, "ingest", "Create Release") = "failure" =>
         wf.repoQueue = wf.queue0

(***************************************************************************)
(* Properties of the way of a duration.                                    *)
(***************************************************************************)
\* The number a string of decimal digits stands for.
DigitsValue(s) ==
  LET Digit(c) == (CHOOSE i \in 1..10 : DigitChars[i] = c) - 1
      F[n \in 0..Len(s)] ==
        IF n = 0 THEN 0 ELSE 10 * F[n - 1] + Digit(SubSeq(s, n, n))
  IN F[Len(s)]

\* HH:MM:SS of two digits each, with HH = s div 3600,
\* MM = (s mod 3600) div 60 and SS = s mod 60.
IsClockOf(text, s) ==
  /\ Len(text) = 8
  /\ SubSeq(text, 3, 3) = ":" /\ SubSeq(text, 6, 6) = ":"
  /\ \A i \in {1, 2, 4, 5, 7, 8} :
       \E k \in 1..10 : DigitChars[k] = SubSeq(text, i, i)
  /\ DigitsValue(SubSeq(text, 1, 2)) = s \div 3600
  /\ DigitsValue(SubSeq(text, 4, 5)) = (s % 3600) \div 60
  /\ DigitsValue(SubSeq(text, 7, 8)) = s % 60

(***************************************************************************)
(* C22.  For a recording of s whole seconds, 0 <= s < 360000: the          *)
(* duration_fmt the script gives and the duration the step Extract MP3     *)
(* Duration gives are the string HH:MM:SS of s; the body of the release    *)
(* holds the line METADATA::DURATION:: followed by that string; the        *)
(* duration generate_rss.py reads from the body is that string; and the    *)
(* duration it reads from a body without the marker is 00:00:00.           *)
(***************************************************************************)
C22_DurationRoundTrip ==
  (wf.pc \in {"probe", "release", "feed", "done"}
     /\ wf.seconds \in 0..359999) =>
    /\ IsClockOf(OutputOf(wf.outputs.process, "duration_fmt"), wf.seconds)
    /\ wf.pc # "probe" =>
         IsClockOf(OutputOf(wf.outputs.duration, "duration"), wf.seconds)
    /\ wf.pc \in {"feed", "done"} =>
         \E i \in 1..Len(wf.body) :
           wf.body[i] = "METADATA::DURATION::"
                          \o OutputOf(wf.outputs.duration, "duration")
    /\ wf.pc = "done" =>
         /\ wf.duration = OutputOf(wf.outputs.duration, "duration")
         /\ wf.otherDuration = "00:00:00"

\* The same for the titles that do not hold the marker themselves.
DurationRoundTripOrdinaryTitle ==
  (wf.pc \in {"probe", "release", "feed", "done"}
     /\ ~Contains(OutputOf(wf.outputs.process, "space_title"),
                  "METADATA::DURATION::"))
    => C22_DurationRoundTrip

(***************************************************************************)
(* C23.  Each action of the page changes its own part of config,           *)
(* activeFile and activeTab: a change of an input leaves activeFile and    *)
(* activeTab as they were; the button of a file makes that entry of the    *)
(* registry the active file and files the active tab, and leaves config;   *)
(* the two tab buttons, the copy and its timer leave config and            *)
(* activeFile; and the active file is an entry of the registry in every    *)
(* state, the first entry at the start.                                    *)
(***************************************************************************)
C23_FrameEffects ==
  /\ activeFile = FILES[1]
  /\ [][ /\ \A n \in PipelineConfigFields :
             \A v \in InputValues(n) :
               handleConfigChange(n, v)
                 => activeFile' = activeFile /\ activeTab' = activeTab
         /\ \A i \in 1..Len(FILES) :
             SelectFile(i)
               => /\ activeFile' = FILES[i]
                  /\ activeTab' = "files"
                  /\ config' = config
         /\ (ShowConfiguration \/ ViewGeneratedFiles \/ handleCopy
               \/ CopiedTimeout)
             => config' = config /\ activeFile' = activeFile
         /\ \E i \in 1..Len(FILES') : activeFile' = FILES'[i] ]_vars

\* A file other than the first was selected and copied, and a field was
\* edited after that: the selection is still there.
C23_Witness ==
  /\ activeTab = "config"
  /\ activeFile.path = "space_queue.txt"
  /\ clipboard # NoText
  /\ edits = 1
  /\ config # DefaultConfigLiteral

====
